---- MODULE Spec2Model ----
(***************************************************************************)
(* Smart Pump Guardian (src/pump_guardian_2.ino, the full IoT firmware     *)
(* that starts at line 372): the relay state machine of loop(), its        *)
(* anti-chatter and fault-lockout timers, the manual buttons, the          *)
(* sampling cycle, and the network reconciliation cycle with the remote    *)
(* device document.                                                        *)
(*                                                                         *)
(* Units.  Time is in milliseconds, as millis() counts it: an unsigned      *)
(* 32-bit counter, written here in two's complement (a counter value v of  *)
(* 2^31 or more is written v - 2^32), so that the counter's wrap from      *)
(* 2^32 - 1 to 0 is the step from -1 to 0, sums and differences modulo     *)
(* 2^32 are the plain ones, and only the order has to be spelled out.      *)
(* Voltage is in volts, current in tenths of an ampere, power in watts,    *)
(* power factor in hundredths, horsepower in tenths; so the defaults       *)
(* minVoltage 180.0, maxVoltage 260.0, maxCurrent_A 6.0, minCurrent_A 0.3, *)
(* minPF 0.5, hp 1.0 read 180, 260, 60, 3, 50, 10.                         *)
(*                                                                         *)
(* loop() is one pass of straight-line sections; pc names the section the  *)
(* pass is at.  Each section, and each function of the network cycle, is   *)
(* one action.  The LCD section only draws and is left out.                *)
(***************************************************************************)
EXTENDS Integers, Sequences, FiniteSets, TLC

\* ---------------------------------------------------------------- constants
MIN_OFF_MS == 5000
FAULT_LOCK_MS == 30000
SAMPLE_PERIOD_MS == 500
NET_PERIOD_MS == 5000
ROTATE_PERIOD_MS == 30000
WIFI_TIMEOUT_MS == 12000
WDT_TIMEOUT_SEC == 8
\* a sign-in's expiresIn is cut by a minute
TOKEN_EARLY_SEC == 60
\* delay(200) in setup()
SETUP_DELAY_MS == 200
\* delay(1500) in the setup() of the simple firmware
SIMPLE_SETUP_DELAY_MS == 1500

\* ------------------------------------------------------------------- bounds
\* a run with the network is cut when millis() has passed MaxNetPeriods
\* network periods, a run without it after MaxLocalPeriods of them
MaxNetPeriods == 2
MaxLocalPeriods == 8
\* a run that is followed sample by sample is cut after MaxSamplePeriods
\* sampling periods
MaxSamplePeriods == 12
\* entries of /logs.jsonl at which its size reaches maxBytes (200 KiB)
LogMaxEntries == 3
\* the entry count of a file is tracked up to LogCap and saturates there
LogCap == 5
\* setter calls a run makes
MaxSetterCalls == 2

\* millis() at the cut; loop() begins SETUP_DELAY_MS after power-on at the earliest
MaxNetTime == SETUP_DELAY_MS + MaxNetPeriods * NET_PERIOD_MS
MaxLocalTime == SETUP_DELAY_MS + MaxLocalPeriods * NET_PERIOD_MS
MaxSampleTime == SETUP_DELAY_MS + MaxSamplePeriods * SAMPLE_PERIOD_MS

\* time that passes between two passes of loop()
LoopDelays == {0, 5000}
\* time between two passes of a loop() followed sample by sample
SampleDelays == {0, SAMPLE_PERIOD_MS}
\* time a request to the remote service blocks loop()
HttpDelays == {0}
\* time connectWiFi blocks when the association succeeds
WifiUpDelays == {5000}
\* the expiresIn, in seconds, that a sign-in answers
ExpiresIn == {3600}

\* ------------------------------------------------------ unsigned arithmetic
\* unsigned long values are held by their two's complement names, the
\* integers of MinInt32..MaxInt32: a + b and a - b modulo 2^32, computed
\* without leaving that range
MaxInt32 == 2147483647
MinInt32 == 0 - MaxInt32 - 1
Add32(a, b) ==
    IF a >= 0 /\ b >= 0 /\ a > MaxInt32 - b
    THEN ((a - MaxInt32) + (b - MaxInt32)) - 2
    ELSE IF a < 0 /\ b < 0 /\ a < MinInt32 - b
    THEN ((a + MaxInt32) + (b + MaxInt32)) + 2
    ELSE a + b
Sub32(a, b) == IF b = MinInt32 THEN Add32(a, MinInt32) ELSE Add32(a, 0 - b)
\* a / d of the unsigned value a, for a divisor d of 2..MaxInt32: a negative
\* name a stands for 2^31 + (a - MinInt32), and 2^31 is MaxInt32 + 1
Div32(a, d) ==
    IF a >= 0 THEN a \div d
    ELSE LET k == a - MinInt32
             h == (MaxInt32 % d) + 1
         IN  (MaxInt32 \div d) + (h \div d) + (k \div d) + (((h % d) + (k % d)) \div d)
\* a >= b and a < b as unsigned values: a negative representation is the
\* larger value
Ge32(a, b) == IF (a < 0) = (b < 0) THEN a >= b ELSE a < 0
Lt32(a, b) == ~Ge32(a, b)
Min(a, b) == IF a <= b THEN a ELSE b

\* --------------------------------------------------------------- data model
DefaultThresholds ==
    [minVoltage |-> 180, maxVoltage |-> 260, maxCurrent_A |-> 60,
     minCurrent_A |-> 3, minPF |-> 50]

DefaultSchedule ==
    [onHour |-> 6, onMinute |-> 0, offHour |-> 6, offMinute |-> 30,
     enabled |-> FALSE, seasonStartMonth |-> 1, seasonEndMonth |-> 12]

DefaultHp == 10

\* an optional value: None, or Some(x); a NaN reading, an absent file, an
\* absent document field and an absent Preferences key are all None
None == <<>>
Some(x) == <<x>>
Val(o) == o[1]

\* the keys of the Preferences namespace "spg"
PrefKeys ==
    {"maxI", "minPF", "minI", "minV", "maxV", "onH", "onM", "offH", "offM",
     "sched", "sMonS", "sMonE", "hp"}

\* the namespace with no key in it
EmptyPrefs == [k \in PrefKeys |-> None]

\* the namespace after the puts of savePrefs on the config c
PutPrefs(c) ==
    [maxI |-> Some(c.thresholds.maxCurrent_A),
     minPF |-> Some(c.thresholds.minPF),
     minI |-> Some(c.thresholds.minCurrent_A),
     minV |-> Some(c.thresholds.minVoltage),
     maxV |-> Some(c.thresholds.maxVoltage),
     onH |-> Some(c.scheduleCfg.onHour),
     onM |-> Some(c.scheduleCfg.onMinute),
     offH |-> Some(c.scheduleCfg.offHour),
     offM |-> Some(c.scheduleCfg.offMinute),
     sched |-> Some(c.scheduleCfg.enabled),
     sMonS |-> Some(c.scheduleCfg.seasonStartMonth),
     sMonE |-> Some(c.scheduleCfg.seasonEndMonth),
     hp |-> Some(c.hp)]

\* what a boot finds in the Preferences namespace "spg"
BootPrefs ==
    {PutPrefs([thresholds |-> DefaultThresholds,
               scheduleCfg |-> [DefaultSchedule EXCEPT !.enabled = TRUE],
               hp |-> DefaultHp])}

\* meter readings of the relay specification: a loaded pump on good mains, a
\* brown-out, and a meter that does not answer
Readings ==
    {[V |-> Some(230), I |-> Some(20), P |-> Some(414), PF |-> Some(90)],
     [V |-> Some(150), I |-> Some(20), P |-> Some(270), PF |-> Some(90)],
     [V |-> None, I |-> None, P |-> None, PF |-> None]}

\* wall-clock readings of the relay specification: inside and outside 06:00-06:30
Clocks ==
    {[hour |-> 6, minute |-> 10, month |-> 6],
     [hour |-> 7, minute |-> 0, month |-> 6]}

NoIntent == [forceOn |-> FALSE, forceOff |-> FALSE, clearManual |-> FALSE]
\* the intents a user of the app writes
Intents ==
    {[forceOn |-> TRUE, forceOff |-> FALSE, clearManual |-> FALSE],
     [forceOn |-> FALSE, forceOff |-> TRUE, clearManual |-> FALSE],
     [forceOn |-> FALSE, forceOff |-> FALSE, clearManual |-> TRUE],
     [forceOn |-> TRUE, forceOff |-> TRUE, clearManual |-> FALSE]}
\* what the user writes while a fetch is between its GET and its PATCH:
\* nothing, or one of the intents
LateWrites == {None} \cup {Some(c) : c \in Intents}
\* the same in the relay specification, for a fetch that finds the control
\* map c: nothing, or forceOff.  A fetch that finds no intent sends no PATCH,
\* and a write that comes while it runs is read by the next fetch, as a write
\* between the two passes is.
RelayLateWrites(c) ==
    IF c = NoIntent THEN {None}
    ELSE {None, Some([forceOn |-> FALSE, forceOff |-> TRUE, clearManual |-> FALSE])}

VARIABLES
    pc,              \* section of loop() the pass is at
    now,             \* millis()
    nowMs,           \* loop()'s local nowMs
    relayCommand, relayPhysical, manualPriority, lastFault, hp,   \* struct State
    thresholds, scheduleCfg, prefs,
    lastOffMs, faultLockUntil,
    lastSampleMs, lastNetMs, lastRotateMs, wasRunning, runStartMs,
    meas,            \* loop()'s static V, I, P, PF
    idToken, tokenExpiryMs,
    remote,          \* the device document /devices/{DEVICE_ID}
    logTail,         \* entries the latest step has appended to /logs.jsonl
    logLen,          \* entries in /logs.jsonl
    pendingLen,      \* Some(entries in /logs_pending.jsonl), None when absent
    mounted,         \* SPIFFS.begin(true) of setup() has succeeded
    sinceOff,        \* history: ms since the latest physical on->off, counted up to MIN_OFF_MS
    fresh,           \* history: the control map holds an intent written since the last one applied
    applied,         \* history: the intent this pass fetched and applied, NoIntent if none
    drained,         \* history: Some([size, accepted]) of this pass's drain
    probe,           \* history: Some(the latest direct call of a function, its arguments and result)
    setterCalls,     \* history: the setter calls so far, counted up to MaxSetterCalls
    saved,           \* history: savePrefs has run in this pass of loop() or since it
    simple           \* the state of the simple firmware (lines 1-371) and of its command document

relayVars == <<relayCommand, relayPhysical, manualPriority, lastFault>>
timerVars == <<lastOffMs, faultLockUntil>>
cfgVars == <<thresholds, scheduleCfg, hp, prefs>>
passVars == <<lastSampleMs, lastNetMs, lastRotateMs, wasRunning, runStartMs, meas>>
authVars == <<idToken, tokenExpiryMs>>
logVars == <<logTail, logLen, pendingLen, mounted>>
noteVars == <<fresh, applied, drained, probe, setterCalls, saved, simple>>
histVars == <<sinceOff, noteVars>>

vars ==
    <<pc, now, nowMs, relayVars, timerVars, cfgVars, passVars, authVars, remote,
      logVars, histVars>>


\* ------------------------------------------------------------- PROTECTION
\* variant of evaluateFaults that tests the current before the voltage
evaluateFaultsOverloadFirst(V, I, PF) ==
    IF I > thresholds.maxCurrent_A THEN "FAULT_OVERLOAD"
    ELSE IF V < thresholds.minVoltage THEN "FAULT_UNDERVOLT"
    ELSE IF V > thresholds.maxVoltage THEN "FAULT_OVERVOLT"
    ELSE IF I <= thresholds.minCurrent_A /\ PF <= thresholds.minPF THEN "FAULT_DRYRUN"
    ELSE "FAULT_NONE"

\* variant of evaluateFaults for which either dry-run condition is enough
evaluateFaultsDryRunEither(V, I, PF) ==
    IF V < thresholds.minVoltage THEN "FAULT_UNDERVOLT"
    ELSE IF V > thresholds.maxVoltage THEN "FAULT_OVERVOLT"
    ELSE IF I > thresholds.maxCurrent_A THEN "FAULT_OVERLOAD"
    ELSE IF I <= thresholds.minCurrent_A \/ PF <= thresholds.minPF THEN "FAULT_DRYRUN"
    ELSE "FAULT_NONE"

evaluateFaults(V, I, PF) ==
    IF V < thresholds.minVoltage THEN "FAULT_UNDERVOLT"
    ELSE IF V > thresholds.maxVoltage THEN "FAULT_OVERVOLT"
    ELSE IF I > thresholds.maxCurrent_A THEN "FAULT_OVERLOAD"
    ELSE IF I <= thresholds.minCurrent_A /\ PF <= thresholds.minPF THEN "FAULT_DRYRUN"
    ELSE "FAULT_NONE"

faultToString(f) ==
    CASE f = "FAULT_NONE" -> "OK"
      [] f = "FAULT_DRYRUN" -> "DRY RUN"
      [] f = "FAULT_OVERLOAD" -> "OVERLOAD"
      [] f = "FAULT_UNDERVOLT" -> "UNDER VOLT"
      [] f = "FAULT_OVERVOLT" -> "OVER VOLT"
      [] OTHER -> "UNKNOWN"

\* -------------------------------------------------------------- SCHEDULER
seasonAllows(clk) ==
    IF scheduleCfg.seasonStartMonth <= scheduleCfg.seasonEndMonth
    THEN clk.month >= scheduleCfg.seasonStartMonth /\ clk.month <= scheduleCfg.seasonEndMonth
    ELSE clk.month >= scheduleCfg.seasonStartMonth \/ clk.month <= scheduleCfg.seasonEndMonth

\* variant of isWithinOnWindow whose window across midnight needs both tests
isWithinOnWindowNoWrap(clk) ==
    LET curM == clk.hour * 60 + clk.minute
        onM == scheduleCfg.onHour * 60 + scheduleCfg.onMinute
        offM == scheduleCfg.offHour * 60 + scheduleCfg.offMinute
    IN  IF ~scheduleCfg.enabled THEN FALSE
        ELSE IF ~seasonAllows(clk) THEN FALSE
        ELSE IF onM = offM THEN FALSE
        ELSE curM >= onM /\ curM < offM

isWithinOnWindow(clk) ==
    LET curM == clk.hour * 60 + clk.minute
        onM == scheduleCfg.onHour * 60 + scheduleCfg.onMinute
        offM == scheduleCfg.offHour * 60 + scheduleCfg.offMinute
    IN  IF ~scheduleCfg.enabled THEN FALSE
        ELSE IF ~seasonAllows(clk) THEN FALSE
        ELSE IF onM = offM THEN FALSE
        ELSE IF onM < offM THEN curM >= onM /\ curM < offM
        ELSE curM >= onM \/ curM < offM

\* ----------------------------------------------------------------- HEALTH
\* measuredW / (hp * 746) as a fraction; hp is in tenths, so both sides are
\* in tenths of a watt.  0 when the rated power is 1 W or less.
estimateEfficiency(measuredW) ==
    IF hp * 746 <= 10 THEN [num |-> 0, den |-> 1]
    ELSE [num |-> measuredW * 10, den |-> hp * 746]

\* eff > 0 && eff < 0.4
LowEfficiency(eff) == eff.num > 0 /\ eff.num * 10 < 4 * eff.den

\* ---------------------------------------------------------------- LOGGING
\* one line of /logs.jsonl: its type, its message text and the numbers the
\* message prints (0 where it prints none); the timestamp is left out
Entry(type, text, x, y, z) == [type |-> type, text |-> text, x |-> x, y |-> y, z |-> z]

\* appendLog, once per entry of es: without a mounted file system
\* SPIFFS.open fails and the call returns with nothing written
appendLog(es) ==
    /\ logTail' = IF mounted THEN es ELSE <<>>
    /\ logLen' = IF mounted THEN Min(logLen + Len(es), LogCap) ELSE logLen

\* variant of rotateLogsIfTooBig that adds the log to a pending file it finds
rotateLogsIfTooBigAppends(len, pend) ==
    IF len = 0 THEN [logLen |-> len, pendingLen |-> pend]
    ELSE IF len < LogMaxEntries THEN [logLen |-> len, pendingLen |-> pend]
    ELSE [logLen |-> 0,
          pendingLen |-> IF pend = None THEN Some(len)
                         ELSE Some(Min(Val(pend) + len, 2 * LogCap))]

\* rotateLogsIfTooBig on files of `len` and `pend` entries: the new
\* [logLen, pendingLen]
rotateLogsIfTooBig(len, pend) ==
    IF len = 0 THEN [logLen |-> len, pendingLen |-> pend]
    ELSE IF len < LogMaxEntries THEN [logLen |-> len, pendingLen |-> pend]
    ELSE [logLen |-> 0, pendingLen |-> Some(len)]

\* ------------------------------------------------------------------ RELAY
setRelay(on) ==
    /\ relayCommand' = on
    /\ relayPhysical' = on

\* history: `elapsed` ms pass and the relay goes to newPhysical
TrackOff(newPhysical, elapsed) ==
    sinceOff' = IF relayPhysical /\ ~newPhysical THEN 0
                ELSE Min(sinceOff + elapsed, MIN_OFF_MS)

\* the gate of the manual start, read at millis() = t
ManualStartGate(t) ==
    Ge32(Sub32(t, lastOffMs), MIN_OFF_MS) /\ Ge32(t, faultLockUntil)

\* variant of ScheduleGate without the lockout test
ScheduleGateNoLockout(t) ==
    Ge32(Sub32(t, lastOffMs), MIN_OFF_MS)

\* the gate of the scheduled start, read at nowMs = t
ScheduleGate(t) ==
    Ge32(Sub32(t, lastOffMs), MIN_OFF_MS) /\ Ge32(t, faultLockUntil)


\* ------------------------------------------------------- integer text
\* Firestore carries an integerValue as decimal text; text is a sequence of
\* one-character strings
Digits == <<"0", "1", "2", "3", "4", "5", "6", "7", "8", "9">>

IsDigit(ch) == \E i \in 1..10 : Digits[i] = ch

DigitValue(ch) == (CHOOSE i \in 1..10 : Digits[i] = ch) - 1

RECURSIVE NatText(_)
NatText(n) == IF n < 10 THEN <<Digits[n + 1]>> ELSE NatText(n \div 10) \o <<Digits[(n % 10) + 1]>>

\* the decimal text of an int, as the service answers it
IntText(n) == IF n < 0 THEN <<"-">> \o NatText(0 - n) ELSE NatText(n)

\* isspace: the space, \t, \n, the vertical tab, \f, \r
IsSpace(ch) == ch \in {" ", "\t", "\n", "", "\f", "\r"}

RECURSIVE AtoiDigits(_, _)
AtoiDigits(txt, acc) ==
    IF txt = <<>> \/ ~IsDigit(Head(txt)) THEN acc
    ELSE AtoiDigits(Tail(txt), acc * 10 + DigitValue(Head(txt)))

RECURSIVE atoi(_)
\* atoi: leading white space, an optional sign, then digits up to the first
\* other character; 0 when there is no digit
atoi(txt) ==
    IF txt = <<>> THEN 0
    ELSE IF IsSpace(Head(txt)) THEN atoi(Tail(txt))
    ELSE IF Head(txt) = "-" THEN 0 - AtoiDigits(Tail(txt), 0)
    ELSE IF Head(txt) = "+" THEN AtoiDigits(Tail(txt), 0)
    ELSE AtoiDigits(txt, 0)

\* ------------------------------------------------------------------ SETUP
\* prefs.getFloat / getInt / getBool: the key's value, or the default
GetPref(p, key, default) == IF p[key] = None THEN default ELSE Val(p[key])

\* loadPrefs on a Preferences namespace p, after a reset: each key is read
\* with the field's initial value as its default
loadPrefs(p) ==
    [thresholds |->
        [maxCurrent_A |-> GetPref(p, "maxI", DefaultThresholds.maxCurrent_A),
         minPF |-> GetPref(p, "minPF", DefaultThresholds.minPF),
         minCurrent_A |-> GetPref(p, "minI", DefaultThresholds.minCurrent_A),
         minVoltage |-> GetPref(p, "minV", DefaultThresholds.minVoltage),
         maxVoltage |-> GetPref(p, "maxV", DefaultThresholds.maxVoltage)],
     scheduleCfg |->
        [onHour |-> GetPref(p, "onH", DefaultSchedule.onHour),
         onMinute |-> GetPref(p, "onM", DefaultSchedule.onMinute),
         offHour |-> GetPref(p, "offH", DefaultSchedule.offHour),
         offMinute |-> GetPref(p, "offM", DefaultSchedule.offMinute),
         enabled |-> GetPref(p, "sched", DefaultSchedule.enabled),
         seasonStartMonth |-> GetPref(p, "sMonS", DefaultSchedule.seasonStartMonth),
         seasonEndMonth |-> GetPref(p, "sMonE", DefaultSchedule.seasonEndMonth)],
     hp |-> GetPref(p, "hp", DefaultHp)]

\* a field of the device document: absent (None), or Some of one Firestore
\* value, which names its type: doubleValue, integerValue (whose value is
\* decimal text), booleanValue or stringValue
Typed(type, value) == Some([type |-> type, value |-> value])

\* the config part of the device document as ensureDeviceDoc writes it
ConfigDoc(c) ==
    [thresholds |-> [f \in DOMAIN c.thresholds |-> Typed("doubleValue", c.thresholds[f])],
     scheduleCfg |-> [f \in DOMAIN c.scheduleCfg |->
                        IF f = "enabled" THEN Typed("booleanValue", c.scheduleCfg[f])
                        ELSE Typed("integerValue", IntText(c.scheduleCfg[f]))],
     hp |-> Typed("doubleValue", c.hp)]

NoDoc ==
    [exists |-> FALSE,
     cfg |-> [thresholds |-> [f \in DOMAIN DefaultThresholds |-> None],
              scheduleCfg |-> [f \in DOMAIN DefaultSchedule |-> None],
              hp |-> None],
     control |-> NoIntent,
     status |-> None]

\* the document ensureDeviceDoc creates from the local config c
NewDoc(c) ==
    [exists |-> TRUE,
     cfg |-> ConfigDoc(c),
     control |-> NoIntent,
     status |-> Some([online |-> TRUE, relay |-> FALSE, lastFault |-> "BOOT"])]

\* the document pump_data/live_status as setup() of the simple firmware
\* leaves it: None when the service held none or the PATCH of initFirebase
\* has replaced it; what updateFirebaseData wrote in an earlier run (a
\* running pump, a pump tripped on overload) when that PATCH is refused
SimpleLives ==
    {None,
     Some([pump_status |-> TRUE, last_operation_reason |-> "None",
           overload_alert |-> FALSE, dry_run_alert |-> FALSE]),
     Some([pump_status |-> FALSE, last_operation_reason |-> "Trip: Overload",
           overload_alert |-> TRUE, dry_run_alert |-> FALSE])}

\* the state of the simple command-polling firmware after its setup(),
\* which ends with delay(1500): the globals at their initializers.  at is
\* the section of its loop() the pass is at and millis its millis(), with
\* the requests of setup() answered at once; pump_on is the field of the
\* document pump_commands/remote_control (None while the document has
\* none) and live the document pump_data/live_status, left as `left`.
\* localOff is history: the pump is off since a protection trip or the stop
\* button turned it off, and pump_on has not been written since.
SimpleSetup(left) ==
    [at |-> "manual", millis |-> SIMPLE_SETUP_DELAY_MS,
     pumpStatus |-> FALSE, faultReason |-> "None",
     overload_alert |-> FALSE, dry_run_alert |-> FALSE,
     voltage |-> 0, current |-> 0, power |-> 0, powerFactor |-> 0,
     lastPzemRead |-> 0, lastFirebaseUpdate |-> 0, lastCommandCheck |-> 0,
     lastDebounceTime |-> 0,
     pump_on |-> None, live |-> left, localOff |-> FALSE]

\* firebaseSignIn entered at millis() = t by a device that holds the token
\* tok until exp.  A token that is still good at t is kept and no request is
\* made.  Otherwise the sign-in request takes ds ms; postOk: it answers 200,
\* with expiresIn = e, and the expiry is stamped from millis() at the answer.
\* The result, the token it leaves and the ms the call took.
SignInWith(tok, exp, t, ds, postOk, e) ==
    IF tok /\ Lt32(t, exp)
    THEN [ok |-> TRUE, idToken |-> tok, tokenExpiryMs |-> exp, took |-> 0]
    ELSE IF postOk
    THEN [ok |-> TRUE, idToken |-> TRUE,
          tokenExpiryMs |-> Add32(Add32(t, ds), (e - TOKEN_EARLY_SEC) * 1000),
          took |-> ds]
    ELSE [ok |-> FALSE, idToken |-> tok, tokenExpiryMs |-> exp, took |-> ds]

\* what setup() meets: SPIFFS.begin(true) succeeds (fs), and when it fails
\* the flash holds no file the device can open; rtc.begin() succeeds (rtc);
\* connectWiFi associates after d ms (up) or gives up after
\* d = WIFI_TIMEOUT_MS; the sign-in of setup() is accepted (signOk) with
\* expiresIn = e; in ensureDeviceDoc the sign-in is accepted (authOk), the
\* GET answers 200 (getOk), the POST that creates the document is accepted
\* (postOk).  The requests of setup() answer at once.
BootEnv(fs, rtc, up, d, signOk, authOk, getOk, postOk, e) ==
    [fs |-> fs, rtc |-> rtc, up |-> up, d |-> d, signOk |-> signOk, authOk |-> authOk,
     getOk |-> getOk, postOk |-> postOk, e |-> e]

\* setup() with WiFi away
OfflineBoots ==
    {BootEnv(fs, rtc, FALSE, WIFI_TIMEOUT_MS, FALSE, FALSE, FALSE, FALSE, e) :
        fs \in BOOLEAN, rtc \in BOOLEAN, e \in ExpiresIn}

\* setup() with WiFi there
OnlineBoots ==
    {BootEnv(x[1], x[2], TRUE, x[3], x[4], x[5], x[6], x[7], x[8]) :
        x \in BOOLEAN \X BOOLEAN \X ({0} \cup WifiUpDelays) \X BOOLEAN \X BOOLEAN
              \X BOOLEAN \X BOOLEAN \X ExpiresIn}

Boots == OfflineBoots \cup OnlineBoots

\* setup() with SPIFFS mounted, the DS3231 fitted and WiFi there at once:
\* with whatever answers, with every request refused, with every request
\* accepted
PromptBoots == {b \in OnlineBoots : b.fs /\ b.rtc /\ b.d = 0}
RefusedBoots == {b \in PromptBoots : ~b.signOk /\ ~b.authOk /\ ~b.getOk /\ ~b.postOk}
AcceptedBoots == {b \in PromptBoots : b.signOk /\ b.authOk /\ b.getOk /\ b.postOk}
\* setup() with SPIFFS mounted, the DS3231 fitted and WiFi away
DownBoots == {b \in OfflineBoots : b.fs /\ b.rtc}
\* setup() as in RefusedBoots, but for SPIFFS, which does not mount
NoFsBoots ==
    {b \in OnlineBoots : ~b.fs /\ b.rtc /\ b.d = 0
                         /\ ~b.signOk /\ ~b.authOk /\ ~b.getOk /\ ~b.postOk}

\* the lines setup() appends to /logs.jsonl
BootLog(b) ==
    IF ~b.fs THEN <<>>
    ELSE (IF b.rtc THEN <<>> ELSE <<Entry("rtc", "DS3231 missing", 0, 0, 0)>>)
         \o <<Entry("net", IF b.up THEN "WiFi up" ELSE "WiFi fail", 0, 0, 0),
              Entry("boot", "Firmware started", 0, 0, 0)>>

\* what setup() leaves when it meets b with the Preferences p, the device
\* document rem and a log of len entries: millis() at its return, the token,
\* the document and the log
AfterSetup(b, p, rem, len) ==
    LET t == SETUP_DELAY_MS + b.d
        r1 == SignInWith(FALSE, 0, t, 0, b.signOk, b.e)
        r2 == SignInWith(r1.idToken, r1.tokenExpiryMs, t, 0, b.authOk, b.e)
        made == /\ b.up /\ r2.ok
                /\ ~(b.getOk /\ rem.exists) /\ b.postOk /\ ~rem.exists
    IN  [now |-> t,
         idToken |-> b.up /\ r2.idToken,
         tokenExpiryMs |-> IF b.up THEN r2.tokenExpiryMs ELSE 0,
         remote |-> IF made THEN NewDoc(loadPrefs(p)) ELSE rem,
         logTail |-> BootLog(b),
         logLen |-> IF b.fs THEN Min(len + Len(BootLog(b)), LogCap) ELSE 0]

\* the entries power-on finds in /logs.jsonl: none, or LogCap and more
BootLens == {0, LogCap}

\* the state setup() leaves at power-on, with the Preferences of stores and
\* the conditions of boots; the device document is there or not, the log
\* is empty or long, a pending file is there or not
Setup(stores, boots) ==
    \E b \in boots, doc \in BOOLEAN, len \in BootLens :
    /\ prefs \in stores
    /\ pc = "start"
    /\ now = AfterSetup(b, prefs, NoDoc, len).now
    /\ nowMs = now
    /\ relayCommand = FALSE
    /\ relayPhysical = FALSE
    /\ manualPriority = FALSE
    /\ lastFault = "OK"
    /\ thresholds = loadPrefs(prefs).thresholds
    /\ scheduleCfg = loadPrefs(prefs).scheduleCfg
    /\ hp = loadPrefs(prefs).hp
    /\ lastOffMs = 0
    /\ faultLockUntil = 0
    /\ lastSampleMs = 0
    /\ lastNetMs = 0
    /\ lastRotateMs = 0
    /\ wasRunning = FALSE
    /\ runStartMs = 0
    /\ meas = [V |-> 0, I |-> 0, P |-> 0, PF |-> 100]
    /\ LET a == AfterSetup(b, prefs,
                           IF doc THEN NewDoc(loadPrefs(prefs)) ELSE NoDoc, len)
       IN  /\ idToken = a.idToken
           /\ tokenExpiryMs = a.tokenExpiryMs
           /\ remote = a.remote
           /\ logTail = a.logTail
           /\ logLen = a.logLen
    /\ pendingLen \in IF b.fs THEN {None, Some(LogMaxEntries)} ELSE {None}
    /\ mounted = b.fs
    /\ sinceOff = MIN_OFF_MS
    /\ fresh = FALSE
    /\ applied = NoIntent
    /\ drained = None
    /\ probe = None
    /\ setterCalls = 0
    /\ saved = FALSE
    /\ simple \in {SimpleSetup(left) : left \in SimpleLives}

Init == Setup(BootPrefs, Boots)

\* power-on has found a long log, where SPIFFS has mounted, and the simple
\* firmware no live_status of an earlier run
LongLog ==
    /\ logLen = IF mounted THEN LogCap ELSE 0
    /\ simple = SimpleSetup(None)

\* setup() has just returned, and what it met was one of the conditions of S
SetupMet(S) ==
    \E b \in S :
       LET a == AfterSetup(b, prefs, remote, LogCap)
       IN  /\ pc = "start"
           /\ now = a.now
           /\ nowMs = a.now
           /\ logTail = a.logTail
           /\ idToken = a.idToken
           /\ mounted = b.fs

\* ---------------------------------------------------- LOOP: manual buttons
\* variant of ManualStart that sets the latch only with an accepted start
ManualStartLatchOnAccept ==
    IF ManualStartGate(now)
    THEN /\ manualPriority' = TRUE
         /\ setRelay(TRUE)
         /\ appendLog(<<Entry("button", "Manual ON", 0, 0, 0)>>)
    ELSE /\ UNCHANGED <<manualPriority, relayCommand, relayPhysical>>
         /\ appendLog(<<Entry("button", "ON blocked (cooldown/lockout)", 0, 0, 0)>>)

\* if (debStart.fell()) { ... }
ManualStart ==
    /\ manualPriority' = TRUE
    /\ IF ManualStartGate(now)
       THEN /\ setRelay(TRUE)
            /\ appendLog(<<Entry("button", "Manual ON", 0, 0, 0)>>)
       ELSE /\ UNCHANGED <<relayCommand, relayPhysical>>
            /\ appendLog(<<Entry("button", "ON blocked (cooldown/lockout)", 0, 0, 0)>>)

\* a pass of loop() begins: esp_task_wdt_reset, debStart.update, the start button
ButtonStart(fell) ==
    /\ pc = "start"
    /\ pc' = "stop"
    /\ IF fell
       THEN ManualStart
       ELSE /\ UNCHANGED <<manualPriority, relayCommand, relayPhysical>>
            /\ appendLog(<<>>)
    /\ applied' = NoIntent
    /\ drained' = None
    /\ saved' = FALSE
    /\ UNCHANGED <<now, nowMs, lastFault, timerVars, cfgVars, passVars, authVars,
                   remote, pendingLen, mounted, sinceOff, fresh, probe, setterCalls, simple>>

\* variant of ManualStop that stamps lastOffMs only when the relay was on
ManualStopWhenRunning ==
    /\ manualPriority' = TRUE
    /\ setRelay(FALSE)
    /\ lastOffMs' = IF relayPhysical THEN now ELSE lastOffMs
    /\ appendLog(<<Entry("button", "Manual OFF", 0, 0, 0)>>)

\* if (debStop.fell()) { ... }
ManualStop ==
    /\ manualPriority' = TRUE
    /\ setRelay(FALSE)
    /\ lastOffMs' = now
    /\ appendLog(<<Entry("button", "Manual OFF", 0, 0, 0)>>)

\* the stop button, then nowMs = millis()
ButtonStop(fell) ==
    /\ pc = "stop"
    /\ pc' = "sample"
    /\ IF fell
       THEN ManualStop
       ELSE /\ UNCHANGED <<manualPriority, relayCommand, relayPhysical, lastOffMs>>
            /\ appendLog(<<>>)
    /\ nowMs' = now
    /\ TrackOff(relayPhysical', 0)
    /\ UNCHANGED <<now, lastFault, faultLockUntil, cfgVars, passVars, authVars,
                   remote, pendingLen, mounted, fresh, applied, drained, probe, setterCalls, saved, simple>>

\* ------------------------------------------------------- LOOP: sampling
\* if (isnan(x)) x = 0, and 1.0 for the power factor
Substitute(r) ==
    [V |-> IF r.V = None THEN 0 ELSE Val(r.V),
     I |-> IF r.I = None THEN 0 ELSE Val(r.I),
     P |-> IF r.P = None THEN 0 ELSE Val(r.P),
     PF |-> IF r.PF = None THEN 100 ELSE Val(r.PF)]

\* the body of if (state.relayPhysical) under fault != FAULT_NONE
FaultTrip ==
    /\ setRelay(FALSE)
    /\ manualPriority' = FALSE
    /\ lastOffMs' = nowMs
    /\ faultLockUntil' = Add32(nowMs, FAULT_LOCK_MS)

\* the fault event of a trip: the fault's name with V, I and PF
FaultLog(f, m) == <<Entry("fault", faultToString(f), m.V, m.I, m.PF)>>

\* variant of CleanSample that clears lastFault whatever the lockout says
CleanSampleClearsFault(cmd) ==
    /\ lastFault' = "OK"
    /\ UNCHANGED <<manualPriority, faultLockUntil>>
    /\ IF ~manualPriority
       THEN IF cmd
            THEN /\ IF ScheduleGate(nowMs)
                    THEN setRelay(TRUE)
                    ELSE relayCommand' = cmd /\ UNCHANGED relayPhysical
                 /\ UNCHANGED lastOffMs
            ELSE IF relayPhysical
                 THEN setRelay(FALSE) /\ lastOffMs' = nowMs
                 ELSE relayCommand' = cmd /\ UNCHANGED <<relayPhysical, lastOffMs>>
       ELSE relayCommand' = cmd /\ UNCHANGED <<relayPhysical, lastOffMs>>

\* the else branch of the fault test, with the schedule's command cmd
CleanSample(cmd) ==
    /\ lastFault' = IF Lt32(nowMs, faultLockUntil) THEN "LOCKOUT" ELSE "OK"
    /\ UNCHANGED <<manualPriority, faultLockUntil>>
    /\ IF ~manualPriority
       THEN IF cmd
            THEN /\ IF ScheduleGate(nowMs)
                    THEN setRelay(TRUE)
                    ELSE relayCommand' = cmd /\ UNCHANGED relayPhysical
                 /\ UNCHANGED lastOffMs
            ELSE IF relayPhysical
                 THEN setRelay(FALSE) /\ lastOffMs' = nowMs
                 ELSE relayCommand' = cmd /\ UNCHANGED <<relayPhysical, lastOffMs>>
       ELSE relayCommand' = cmd /\ UNCHANGED <<relayPhysical, lastOffMs>>

\* variant of ScheduleCommand that follows the schedule whatever the latch says
ScheduleCommandIgnoresLatch(clk) == isWithinOnWindow(clk)

\* if (!state.manualPriority) state.relayCommand = isWithinOnWindow(getNow()):
\* the commanded state after it
ScheduleCommand(clk) ==
    IF ~manualPriority THEN isWithinOnWindow(clk) ELSE relayCommand

\* the sampling block of loop(), run when 500 ms have passed: the meter
\* answers r and the clock reads clk
SampleCycle(r, clk) ==
    LET m == Substitute(r)
        cmd == ScheduleCommand(clk)
        fault == evaluateFaults(m.V, m.I, m.PF)
        tripped == fault # "FAULT_NONE" /\ relayPhysical
    IN  /\ pc = "sample"
        /\ Ge32(Sub32(nowMs, lastSampleMs), SAMPLE_PERIOD_MS)
        /\ pc' = "net"
        /\ lastSampleMs' = nowMs
        /\ meas' = m
        /\ IF fault # "FAULT_NONE"
           THEN /\ lastFault' = faultToString(fault)
                /\ IF relayPhysical
                   THEN FaultTrip
                   ELSE /\ relayCommand' = cmd
                        /\ UNCHANGED <<relayPhysical, manualPriority, lastOffMs,
                                       faultLockUntil>>
           ELSE CleanSample(cmd)
        /\ wasRunning' = relayPhysical'
        /\ runStartMs' = IF relayPhysical' /\ ~wasRunning THEN nowMs ELSE runStartMs
        /\ appendLog(
              (IF tripped THEN FaultLog(fault, m) ELSE <<>>)
              \o (IF LowEfficiency(estimateEfficiency(m.P)) /\ relayPhysical'
                  THEN <<Entry("health", "Low eff", m.P, 0, 0)>> ELSE <<>>)
              \o (IF relayPhysical' /\ ~wasRunning
                  THEN <<Entry("run", "start", 0, 0, 0)>>
                  ELSE IF ~relayPhysical' /\ wasRunning
                  THEN <<Entry("run", "stop", Div32(Sub32(nowMs, runStartMs), 1000), 0, 0)>>
                  ELSE <<>>))
        /\ TrackOff(relayPhysical', 0)
        /\ UNCHANGED <<now, nowMs, cfgVars, lastNetMs, lastRotateMs, authVars,
                       remote, pendingLen, mounted, fresh, applied, drained, probe, setterCalls, saved, simple>>

\* fewer than 500 ms since the last sample: the block is skipped
SampleSkip ==
    /\ pc = "sample"
    /\ Lt32(Sub32(nowMs, lastSampleMs), SAMPLE_PERIOD_MS)
    /\ pc' = "net"
    /\ UNCHANGED <<now, nowMs, relayVars, timerVars, cfgVars, passVars, authVars,
                   remote, logLen, pendingLen, mounted, histVars>>
    /\ logTail' = <<>>


\* ------------------------------------------------------------- WATCHDOG
\* the task watchdog is fed when a pass begins (and in the sampling block of
\* the same pass), at millis() = nowMs; a call that blocks loop() for d more
\* milliseconds runs into the timeout
WdtBites(d) == Ge32(Sub32(Add32(now, d), nowMs), WDT_TIMEOUT_SEC * 1000)

\* the panic restart: RAM is lost and setup() runs again, meeting b; the
\* Preferences p, the remote document rem and, when SPIFFS mounts, the log
\* files survive.
\* millis() restarts at 0 and loop() begins when setup() returns.  off: the
\* ms the relay has been open when the panic comes (0: the panic opens it);
\* len, pend: /logs.jsonl and /logs_pending.jsonl as the panic finds them.
Restart(b, p, rem, off, len, pend) ==
    LET a == AfterSetup(b, p, rem, len)
    IN  /\ pc' = "start"
        /\ now' = a.now
        /\ nowMs' = a.now
        /\ setRelay(FALSE)
        /\ manualPriority' = FALSE
        /\ lastFault' = "OK"
        /\ prefs' = p
        /\ thresholds' = loadPrefs(p).thresholds
        /\ scheduleCfg' = loadPrefs(p).scheduleCfg
        /\ hp' = loadPrefs(p).hp
        /\ lastOffMs' = 0
        /\ faultLockUntil' = 0
        /\ lastSampleMs' = 0
        /\ lastNetMs' = 0
        /\ lastRotateMs' = 0
        /\ wasRunning' = FALSE
        /\ runStartMs' = 0
        /\ meas' = [V |-> 0, I |-> 0, P |-> 0, PF |-> 100]
        /\ idToken' = a.idToken
        /\ tokenExpiryMs' = a.tokenExpiryMs
        /\ remote' = a.remote
        /\ logTail' = a.logTail
        /\ logLen' = a.logLen
        /\ pendingLen' = IF b.fs THEN pend ELSE None
        /\ mounted' = b.fs
        /\ sinceOff' = Min(off + a.now, MIN_OFF_MS)
        /\ applied' = NoIntent
        /\ drained' = None
        /\ saved' = FALSE
        /\ UNCHANGED <<probe, setterCalls, simple>>

\* ms from now to the panic of a call that blocks for too long
ToPanic == Sub32(Add32(nowMs, WDT_TIMEOUT_SEC * 1000), now)

\* the restart after a panic in a call that changed nothing of the device
\* before it blocked and has left the device document as rem, when setup()
\* meets one of boots
PanicWith(boots, rem) ==
    \E b \in boots :
       /\ Restart(b, prefs, rem,
                  IF relayPhysical THEN 0 ELSE Min(sinceOff + ToPanic, MIN_OFF_MS),
                  logLen, pendingLen)
       /\ UNCHANGED fresh

\* the restart after a panic in a call that changed nothing before it blocked
PanicRestart(boots) == PanicWith(boots, remote)

WatchdogReset == PanicRestart(Boots)

\* a call that blocks loop() for d ms and then has Effect, unless the
\* watchdog restarts the device first, into one of boots
BlockingOn(d, boots, Effect) ==
    IF WdtBites(d)
    THEN PanicRestart(boots)
    ELSE /\ now' = Add32(now, d)
         /\ UNCHANGED nowMs
         /\ Effect
         /\ TrackOff(relayPhysical', d)

Blocking(d, Effect) == BlockingOn(d, Boots, Effect)

\* firebaseSignIn entered at millis() = t with the token the device holds
firebaseSignIn(t, ds, postOk, e) == SignInWith(idToken, tokenExpiryMs, t, ds, postOk, e)

\* a function of the network cycle returns after `took` ms
Returns(took) ==
    /\ now' = Add32(now, took)
    /\ UNCHANGED nowMs
    /\ TrackOff(relayPhysical', took)

SetToken(r) ==
    /\ idToken' = r.idToken
    /\ tokenExpiryMs' = r.tokenExpiryMs

\* ------------------------------------------------- LOOP: network cycle
NetDue == Ge32(Sub32(nowMs, lastNetMs), NET_PERIOD_MS)

\* fewer than 5 s since the last network cycle
NetSkip ==
    /\ pc = "net"
    /\ ~NetDue
    /\ pc' = "rotate"
    /\ UNCHANGED <<now, nowMs, relayVars, timerVars, cfgVars, passVars, authVars,
                   remote, logLen, pendingLen, mounted, histVars>>
    /\ logTail' = <<>>

\* the network cycle starts with WiFi.status() == WL_CONNECTED
NetCycleOnline ==
    /\ pc = "net"
    /\ NetDue
    /\ lastNetMs' = nowMs
    /\ pc' = "signin"
    /\ UNCHANGED <<now, nowMs, relayVars, timerVars, cfgVars, lastSampleMs,
                   lastRotateMs, wasRunning, runStartMs, meas, authVars, remote,
                   logLen, pendingLen, mounted, histVars>>
    /\ logTail' = <<>>

\* the network cycle starts with WiFi down: connectWiFi blocks for d ms and
\* the association succeeds (up) or the 12 s run out; with WiFi still down
\* the cycle only rotates the log; a restart meets one of boots
ConnectWiFi(up, d, boots) ==
    /\ pc = "net"
    /\ NetDue
    /\ BlockingOn(d, boots,
         LET len == IF mounted THEN Min(logLen + 1, LogCap) ELSE logLen
             rot == rotateLogsIfTooBig(len, pendingLen)
         IN  /\ lastNetMs' = nowMs
             /\ pc' = IF up THEN "signin" ELSE "rotate"
             /\ logTail' = IF mounted
                           THEN <<Entry("net", IF up THEN "WiFi up" ELSE "WiFi fail", 0, 0, 0)>>
                           ELSE <<>>
             /\ logLen' = IF up THEN len ELSE rot.logLen
             /\ pendingLen' = IF up THEN pendingLen ELSE rot.pendingLen
             /\ UNCHANGED <<mounted, relayVars, timerVars, cfgVars, lastSampleMs, lastRotateMs,
                            wasRunning, runStartMs, meas, authVars, remote, noteVars>>)

\* if (firebaseSignIn()) { ... }: the sign-in request, when one is made,
\* takes ds ms
FirebaseSignIn(postOk, e, ds) ==
    /\ pc = "signin"
    /\ LET r == firebaseSignIn(now, ds, postOk, e)
       IN  Blocking(r.took,
             /\ SetToken(r)
             /\ pc' = IF r.ok THEN "ensure" ELSE "rotate"
             /\ appendLog(<<>>)
             /\ UNCHANGED <<relayVars, timerVars, cfgVars, passVars, remote,
                            pendingLen, mounted, noteVars>>)

\* the local config, as the device document carries it
LocalConfig == [thresholds |-> thresholds, scheduleCfg |-> scheduleCfg, hp |-> hp]

\* ensureDeviceDoc: the sign-in takes ds ms; the GET takes dg ms and answers
\* 200 (getOk) when the document is there; otherwise the POST that creates
\* the document with the local config takes dp ms, and the service accepts
\* it (postOk) when there is no document.  A panic in the sign-in or in the
\* GET finds nothing changed; a panic in the POST finds the document as the
\* service has it, created when the POST was accepted.
EnsureDeviceDoc(authOk, e, getOk, postOk, ds, dg, dp) ==
    /\ pc = "ensure"
    /\ LET r == firebaseSignIn(now, ds, authOk, e)
           posts == r.ok /\ ~(getOk /\ remote.exists)
           answered == IF r.ok THEN r.took + dg ELSE r.took
           took == IF posts THEN answered + dp ELSE answered
           after == IF posts /\ postOk /\ ~remote.exists
                    THEN NewDoc(LocalConfig)
                    ELSE remote
       IN  IF WdtBites(answered)
           THEN PanicRestart(Boots)
           ELSE IF WdtBites(took)
           THEN PanicWith(Boots, after)
           ELSE /\ SetToken(r)
                /\ remote' = after
                /\ pc' = "status"
                /\ appendLog(<<>>)
                /\ UNCHANGED <<relayVars, timerVars, cfgVars, passVars, pendingLen, mounted,
                               noteVars>>
                /\ Returns(took)

\* the status map firestoreUpdateStatus sends
StatusDoc(online) == [online |-> online, relay |-> relayPhysical, lastFault |-> lastFault]

\* firestoreUpdateStatus(true): the sign-in takes ds ms; the PATCH with
\* updateMask=status, which makes the document when there is none, takes
\* dp ms and the service applies it (patchOk).  A panic in the sign-in finds
\* nothing changed; a panic in the PATCH finds the document as the service
\* has it; the restart meets one of boots.
UpdateStatus(authOk, e, patchOk, ds, dp, boots) ==
    /\ pc = "status"
    /\ LET r == firebaseSignIn(now, ds, authOk, e)
           doc == IF remote.exists THEN remote ELSE [NoDoc EXCEPT !.exists = TRUE]
           took == IF r.ok THEN r.took + dp ELSE r.took
           after == IF r.ok /\ patchOk
                    THEN [doc EXCEPT !.status = Some(StatusDoc(TRUE))]
                    ELSE remote
       IN  IF WdtBites(r.took)
           THEN PanicRestart(boots)
           ELSE IF WdtBites(took)
           THEN PanicWith(boots, after)
           ELSE /\ SetToken(r)
                /\ remote' = after
                /\ pc' = "fetch"
                /\ appendLog(<<>>)
                /\ UNCHANGED <<relayVars, timerVars, cfgVars, passVars, pendingLen, mounted,
                               noteVars>>
                /\ Returns(took)

\* firestoreUpdateStatus(true), a restart meeting whatever a boot can meet
FirestoreUpdateStatus(authOk, e, patchOk, ds, dp) ==
    UpdateStatus(authOk, e, patchOk, ds, dp, Boots)

\* the member `type` of the document field o is not null
HasValue(o, type) == o # None /\ Val(o).type = type

\* getFieldDouble / getFieldDouble1 on a document field o: found, and the value
getFieldDouble(o) ==
    [ok |-> HasValue(o, "doubleValue"),
     out |-> IF HasValue(o, "doubleValue") THEN Val(o).value ELSE 0]

\* getFieldBool on a document field o
getFieldBool(o) ==
    [ok |-> HasValue(o, "booleanValue"),
     out |-> IF HasValue(o, "booleanValue") THEN Val(o).value ELSE FALSE]

\* getFieldInt on a document field o: atoi of the integerValue's text
getFieldInt(o) ==
    [ok |-> HasValue(o, "integerValue"),
     out |-> IF HasValue(o, "integerValue") THEN atoi(Val(o).value) ELSE 0]

\* variant of FetchedThresholds in which an absent field falls back to its default
FetchedThresholdsDefaultsAbsent(cfg) ==
    [f \in DOMAIN thresholds |->
        IF getFieldDouble(cfg.thresholds[f]).ok
        THEN getFieldDouble(cfg.thresholds[f]).out ELSE DefaultThresholds[f]]

\* the thresholds after the document's config cfg is copied in
FetchedThresholds(cfg) ==
    [f \in DOMAIN thresholds |->
        IF getFieldDouble(cfg.thresholds[f]).ok
        THEN getFieldDouble(cfg.thresholds[f]).out ELSE thresholds[f]]

\* the schedule after the document's config cfg is copied in
FetchedSchedule(cfg) ==
    [f \in DOMAIN scheduleCfg |->
        IF f = "enabled"
        THEN (IF getFieldBool(cfg.scheduleCfg[f]).ok
              THEN getFieldBool(cfg.scheduleCfg[f]).out ELSE scheduleCfg[f])
        ELSE (IF getFieldInt(cfg.scheduleCfg[f]).ok
              THEN getFieldInt(cfg.scheduleCfg[f]).out ELSE scheduleCfg[f])]

FetchedHp(cfg) == IF getFieldDouble(cfg.hp).ok THEN getFieldDouble(cfg.hp).out ELSE hp

\* variant of savePrefs without the put of "hp"
savePrefsWithoutHp ==
    /\ prefs' = [PutPrefs([thresholds |-> thresholds', scheduleCfg |-> scheduleCfg', hp |-> hp'])
                    EXCEPT !.hp = prefs.hp]
    /\ saved' = TRUE

\* savePrefs, of the values the step leaves
savePrefs ==
    /\ prefs' = PutPrefs([thresholds |-> thresholds', scheduleCfg |-> scheduleCfg', hp |-> hp'])
    /\ saved' = TRUE

\* variant of ApplyControl in which forceOff wins over forceOn
ApplyControlOffWins(c) ==
    /\ manualPriority' =
          IF c.clearManual \/ c.forceOn \/ c.forceOff THEN FALSE ELSE manualPriority
    /\ IF c.forceOff THEN setRelay(FALSE)
       ELSE IF c.forceOn THEN setRelay(TRUE)
       ELSE UNCHANGED <<relayCommand, relayPhysical>>

\* the control part of firestoreFetchAndApply, on the fetched intent c
ApplyControl(c) ==
    /\ manualPriority' =
          IF c.clearManual \/ (c.forceOn /\ ~c.forceOff) \/ (c.forceOff /\ ~c.forceOn)
          THEN FALSE ELSE manualPriority
    /\ IF c.forceOff /\ ~c.forceOn THEN setRelay(FALSE)
       ELSE IF c.forceOn /\ ~c.forceOff THEN setRelay(TRUE)
       ELSE UNCHANGED <<relayCommand, relayPhysical>>

AnyIntent(c) == c.forceOn \/ c.forceOff \/ c.clearManual

\* the relay after the control part has acted on the intent c
RelayAfter(c) ==
    IF c.forceOff /\ ~c.forceOn THEN FALSE
    ELSE IF c.forceOn /\ ~c.forceOff THEN TRUE
    ELSE relayPhysical

\* firestoreFetchAndApply: the sign-in takes ds ms; the GET takes dg ms and
\* answers 200 (getOk) with a body that parses (parseOk); the PATCH that
\* resets the control map, sent when the fetched map holds an intent, takes
\* dp ms and the service applies it (patchOk).  late is a write of the
\* control map by the remote user that reaches the document after the GET
\* was answered and before the PATCH (None: no such write): the function
\* acts on what the GET returned, and its PATCH, whose update mask is the
\* whole control map, is sent without a precondition.  A panic in the
\* sign-in or in the GET finds nothing changed; a panic in the PATCH finds
\* the fetched config applied and saved in the Preferences, and the intent
\* acted upon; the restart meets one of boots
FetchAndApply(authOk, e, getOk, parseOk, patchOk, ds, dg, dp, late, boots) ==
    /\ pc = "fetch"
    /\ LET r == firebaseSignIn(now, ds, authOk, e)
           fetched == r.ok /\ getOk /\ remote.exists /\ parseOk
           patches == fetched /\ AnyIntent(remote.control)
           answered == IF r.ok THEN r.took + dg ELSE r.took
           took == IF patches THEN answered + dp ELSE answered
           written == IF late = None THEN remote
                      ELSE [remote EXCEPT !.control = Val(late)]
           after == IF patches /\ patchOk
                    THEN [written EXCEPT !.control = NoIntent]
                    ELSE written
           seen == IF late # None THEN AnyIntent(Val(late))
                   ELSE IF patches THEN FALSE ELSE fresh
           got == [thresholds |-> FetchedThresholds(remote.cfg),
                   scheduleCfg |-> FetchedSchedule(remote.cfg),
                   hp |-> FetchedHp(remote.cfg)]
           opens == fetched /\ relayPhysical /\ ~RelayAfter(remote.control)
       IN  /\ late # None => r.ok /\ remote.exists /\ ~WdtBites(answered)
           /\ IF WdtBites(answered)
              THEN PanicRestart(boots)
              ELSE IF WdtBites(took)
              THEN \E b \in boots :
                      /\ Restart(b, PutPrefs(got), after,
                                 IF RelayAfter(remote.control) THEN 0
                                 ELSE IF opens THEN Sub32(ToPanic, answered)
                                 ELSE Min(sinceOff + ToPanic, MIN_OFF_MS),
                                 logLen, pendingLen)
                      /\ fresh' = seen
              ELSE /\ now' = Add32(now, took)
                   /\ UNCHANGED nowMs
                   /\ SetToken(r)
                   /\ pc' = "telemetry"
                   /\ IF fetched
                      THEN /\ thresholds' = got.thresholds
                           /\ scheduleCfg' = got.scheduleCfg
                           /\ hp' = got.hp
                           /\ savePrefs
                           /\ ApplyControl(remote.control)
                           /\ applied' = remote.control
                      ELSE UNCHANGED <<cfgVars, relayCommand, relayPhysical,
                                       manualPriority, applied, saved>>
                   /\ fresh' = seen
                   /\ remote' = after
                   /\ appendLog(<<>>)
                   /\ UNCHANGED <<lastFault, timerVars, passVars, pendingLen, mounted, drained,
                                  probe, setterCalls, simple>>
                   /\ sinceOff' = IF opens THEN Min(took - answered, MIN_OFF_MS)
                                  ELSE Min(sinceOff + took, MIN_OFF_MS)

\* variant of FirestoreFetchAndApply that goes on after a deserialization error
FirestoreFetchAndApplyIgnoresParseError(authOk, e, getOk, parseOk, patchOk, ds, dg, dp, late) ==
    FetchAndApply(authOk, e, getOk, TRUE, patchOk, ds, dg, dp, late, Boots)

\* firestoreFetchAndApply, a restart meeting whatever a boot can meet
FirestoreFetchAndApply(authOk, e, getOk, parseOk, patchOk, ds, dg, dp, late) ==
    FetchAndApply(authOk, e, getOk, parseOk, patchOk, ds, dg, dp, late, Boots)

\* firestoreUploadTelemetry: the sign-in takes ds ms and the POST dp ms; it
\* makes a new record in the telemetry collection, which the device never
\* reads back
FirestoreUploadTelemetry(authOk, e, postOk, ds, dp) ==
    /\ pc = "telemetry"
    /\ LET r == firebaseSignIn(now, ds, authOk, e)
       IN  Blocking(IF r.ok THEN r.took + dp ELSE r.took,
             /\ SetToken(r)
             /\ pc' = "drain"
             /\ appendLog(<<>>)
             /\ UNCHANGED <<relayVars, timerVars, cfgVars, passVars, remote, pendingLen, mounted,
                            noteVars>>)

\* offline sync: every line of /logs_pending.jsonl is posted, `accepted` of
\* them with success, and the file is removed
DrainPending(accepted, d) ==
    /\ pc = "drain"
    /\ pendingLen # None
    /\ accepted \in 0..Val(pendingLen)
    /\ Blocking(d,
         /\ pendingLen' = None
         /\ drained' = Some([size |-> Val(pendingLen), accepted |-> accepted])
         /\ pc' = "rotate"
         /\ logTail' = <<>>
         /\ UNCHANGED <<mounted, relayVars, timerVars, cfgVars, passVars, authVars, remote,
                        logLen, fresh, applied, probe, setterCalls, saved, simple>>)

\* no /logs_pending.jsonl
DrainNothing ==
    /\ pc = "drain"
    /\ pendingLen = None
    /\ pc' = "rotate"
    /\ UNCHANGED <<now, nowMs, relayVars, timerVars, cfgVars, passVars, authVars,
                   remote, logLen, pendingLen, mounted, histVars>>
    /\ logTail' = <<>>

\* ------------------------------------------------------ LOOP: rotation
\* the pass ends with the 30 s rotation, the statement after the network
\* cycle, and the next pass begins dt ms later; when that is too late for
\* the watchdog, fed as the pass began, the device restarts into one of
\* boots, with the log files as the rotation has left them
LoopEnd(dt, maxTime, boots) ==
    LET due == Ge32(Sub32(nowMs, lastRotateMs), ROTATE_PERIOD_MS)
        rot == IF due
               THEN rotateLogsIfTooBig(logLen, pendingLen)
               ELSE [logLen |-> logLen, pendingLen |-> pendingLen]
    IN  /\ pc = "rotate"
        /\ now + dt <= maxTime
        /\ IF WdtBites(dt)
           THEN \E b \in boots :
                   /\ Restart(b, prefs, remote,
                              IF relayPhysical THEN 0
                              ELSE Min(sinceOff + ToPanic, MIN_OFF_MS),
                              rot.logLen, rot.pendingLen)
                   /\ UNCHANGED fresh
           ELSE /\ now' = Add32(now, dt)
                /\ UNCHANGED nowMs
                /\ pc' = "start"
                /\ lastRotateMs' = IF due THEN nowMs ELSE lastRotateMs
                /\ logLen' = rot.logLen
                /\ pendingLen' = rot.pendingLen
                /\ logTail' = <<>>
                /\ UNCHANGED <<mounted, relayVars, timerVars, cfgVars, lastSampleMs, lastNetMs,
                               wasRunning, runStartMs, meas, authVars, remote, noteVars>>
                /\ TrackOff(relayPhysical', dt)

\* ------------------------------------------------------- remote user
\* a user of the app writes the control intent c into the device document,
\* at any point of a pass
RemoteWrite(c) ==
    /\ remote.exists
    /\ remote' = [remote EXCEPT !.control = c]
    /\ fresh' = AnyIntent(c)
    /\ UNCHANGED <<pc, now, nowMs, relayVars, timerVars, cfgVars, passVars, authVars,
                   logVars, sinceOff, applied, drained, probe, setterCalls, saved, simple>>

\* ------------------------------------------------- REMOTE CONFIG SETTERS
\* a setter, called between two passes of loop(): the fields it assigns,
\* savePrefs, and one "cfg" line in the log
Setter(th, sch, h, entry) ==
    /\ pc = "start"
    /\ setterCalls < MaxSetterCalls
    /\ setterCalls' = setterCalls + 1
    /\ thresholds' = th
    /\ scheduleCfg' = sch
    /\ hp' = h
    /\ savePrefs
    /\ appendLog(<<entry>>)
    /\ UNCHANGED <<pc, now, nowMs, relayVars, timerVars, passVars, authVars, remote,
                   pendingLen, mounted, sinceOff, fresh, applied, drained, probe, simple>>

setMaxCurrent(A) ==
    Setter([thresholds EXCEPT !.maxCurrent_A = A], scheduleCfg, hp,
           Entry("cfg", "maxI=", A, 0, 0))

setMinPF(pf) ==
    Setter([thresholds EXCEPT !.minPF = pf], scheduleCfg, hp,
           Entry("cfg", "minPF=", pf, 0, 0))

setMinCurrent(A) ==
    Setter([thresholds EXCEPT !.minCurrent_A = A], scheduleCfg, hp,
           Entry("cfg", "minI=", A, 0, 0))

setMinVoltage(V) ==
    Setter([thresholds EXCEPT !.minVoltage = V], scheduleCfg, hp,
           Entry("cfg", "minV=", V, 0, 0))

setMaxVoltage(V) ==
    Setter([thresholds EXCEPT !.maxVoltage = V], scheduleCfg, hp,
           Entry("cfg", "maxV=", V, 0, 0))

setHP(h) ==
    Setter(thresholds, scheduleCfg, h, Entry("cfg", "hp=", h, 0, 0))

setSchedule(onH, onM, offH, offM, en, sMon, eMon) ==
    Setter(thresholds,
           [onHour |-> onH, onMinute |-> onM, offHour |-> offH, offMinute |-> offM,
            enabled |-> en, seasonStartMonth |-> sMon, seasonEndMonth |-> eMon],
           hp,
           Entry("cfg", "sched", <<onH, onM, offH, offM>>, en, <<sMon, eMon>>))

\* a user of the app replaces the config map of the device document by
\* cfg, at any point of a pass
RemoteConfigWrite(cfg) ==
    /\ remote.exists
    /\ remote.cfg # cfg
    /\ remote' = [remote EXCEPT !.cfg = cfg]
    /\ UNCHANGED <<pc, now, nowMs, relayVars, timerVars, cfgVars, passVars, authVars,
                   logVars, histVars>>

\* ------------------------------------------- SIMPLE FIRMWARE VARIANT
\* the command-polling firmware: its state is the record simple, and its
\* steps leave the state of the full firmware alone
deviceVars ==
    <<pc, now, nowMs, relayVars, timerVars, cfgVars, passVars, authVars, remote,
      logVars, sinceOff, fresh, applied, drained, probe, setterCalls, saved>>

DEBOUNCE_DELAY == 50
PZEM_PERIOD_MS == 2000
COMMAND_PERIOD_MS == 5000
UPDATE_PERIOD_MS == 10000
\* the protection thresholds (I in tenths of A, PF in hundredths, P in W)
SimpleThresholds ==
    [overloadCurrent |-> 100, dryRunCurrent |-> 5, dryRunPowerFactor |-> 60,
     minVoltage |-> 180, maxVoltage |-> 250, minPower |-> 5]

\* what the meter answers: a running pump, low mains, an overload, a dry
\* run, no answer
SimpleReadings ==
    {[V |-> Some(230), I |-> Some(20), P |-> Some(414), PF |-> Some(90)],
     [V |-> Some(150), I |-> Some(20), P |-> Some(270), PF |-> Some(90)],
     [V |-> Some(230), I |-> Some(120), P |-> Some(2484), PF |-> Some(90)],
     [V |-> Some(230), I |-> Some(3), P |-> Some(28), PF |-> Some(40)],
     [V |-> None, I |-> None, P |-> None, PF |-> None]}

\* time between two passes of the simple loop()
SimpleDelays == {2500}

\* updateFirebaseData on the state s: the PATCH of pump_data/live_status
\* succeeds (ok) or fails
updateFirebaseData(s, ok) ==
    IF ok
    THEN [s EXCEPT !.live = Some([pump_status |-> s.pumpStatus,
                                  last_operation_reason |-> s.faultReason,
                                  overload_alert |-> s.overload_alert,
                                  dry_run_alert |-> s.dry_run_alert])]
    ELSE s

\* controlPump(turnOn, reason) on the state s
controlPump(s, turnOn, reason, ok) ==
    IF s.pumpStatus = turnOn THEN s
    ELSE updateFirebaseData(
           IF ~turnOn
           THEN [s EXCEPT !.pumpStatus = FALSE, !.faultReason = reason]
           ELSE [s EXCEPT !.pumpStatus = TRUE, !.faultReason = "None",
                          !.dry_run_alert = FALSE, !.overload_alert = FALSE,
                          !.localOff = FALSE],
           ok)

\* a local turn-off: controlPump(false, reason) from a protection trip or
\* from the stop button, which the history field notes when the pump was on
LocalOff(s, reason, ok) ==
    [controlPump(s, FALSE, reason, ok) EXCEPT !.localOff = s.pumpStatus \/ s.localOff]

\* readPzemData: a value that is not a number is stored as 0
readPzemData(s, r) ==
    [s EXCEPT !.voltage = IF r.V = None THEN 0 ELSE Val(r.V),
              !.current = IF r.I = None THEN 0 ELSE Val(r.I),
              !.power = IF r.P = None THEN 0 ELSE Val(r.P),
              !.powerFactor = IF r.PF = None THEN 0 ELSE Val(r.PF)]

\* checkProtections on the state s
checkProtections(s, ok) ==
    LET t == SimpleThresholds
    IN  IF ~s.pumpStatus THEN s
        ELSE IF s.voltage > 0 /\ (s.voltage < t.minVoltage \/ s.voltage > t.maxVoltage)
        THEN LocalOff(s, "Trip: Voltage", ok)
        ELSE IF s.current > t.overloadCurrent
        THEN LocalOff([s EXCEPT !.overload_alert = TRUE], "Trip: Overload", ok)
        ELSE IF /\ s.current < t.dryRunCurrent
                /\ s.powerFactor < t.dryRunPowerFactor
                /\ s.power > t.minPower
        THEN LocalOff([s EXCEPT !.dry_run_alert = TRUE], "Trip: Dry-Run", ok)
        ELSE s

\* handleManualControls: the two buttons are read as levels once the
\* debounce delay has passed; ok1 and ok2 are the outcomes of the PATCHes
handleManualControls(startLow, stopLow, ok1, ok2) ==
    LET s0 == simple
        open == s0.millis - s0.lastDebounceTime > DEBOUNCE_DELAY
        s1 == IF open /\ startLow
              THEN [controlPump(s0, TRUE, "Manual ON", ok1)
                       EXCEPT !.lastDebounceTime = s0.millis]
              ELSE s0
        s2 == IF open /\ stopLow
              THEN [LocalOff(s1, "Manual OFF", ok2)
                       EXCEPT !.lastDebounceTime = s0.millis]
              ELSE s1
    IN  /\ simple.at = "manual"
        /\ simple' = [s2 EXCEPT !.at = "pzem"]
        /\ UNCHANGED deviceVars

\* the block of loop() run when more than 2000 ms have passed: readPzemData,
\* checkProtections
SimpleSample(r, ok) ==
    /\ simple.at = "pzem"
    /\ simple.millis - simple.lastPzemRead > PZEM_PERIOD_MS
    /\ simple' = [checkProtections(readPzemData(simple, r), ok)
                     EXCEPT !.lastPzemRead = simple.millis, !.at = "commands"]
    /\ UNCHANGED deviceVars

SimpleSampleSkip ==
    /\ simple.at = "pzem"
    /\ ~(simple.millis - simple.lastPzemRead > PZEM_PERIOD_MS)
    /\ simple' = [simple EXCEPT !.at = "commands"]
    /\ UNCHANGED deviceVars

\* checkFirestoreCommands on the state s: the GET of the command document
\* succeeds (getOk) or fails
checkFirestoreCommands(s, getOk, ok) ==
    IF getOk /\ s.pump_on # None /\ Val(s.pump_on) # s.pumpStatus
    THEN controlPump(s, Val(s.pump_on), "Remote", ok)
    ELSE s

\* the block of loop() run when more than 5000 ms have passed: the command
\* poll, when Firebase.ready() (ready)
SimplePoll(ready, getOk, ok) ==
    /\ simple.at = "commands"
    /\ simple.millis - simple.lastCommandCheck > COMMAND_PERIOD_MS
    /\ simple' = [(IF ready THEN checkFirestoreCommands(simple, getOk, ok) ELSE simple)
                     EXCEPT !.lastCommandCheck = simple.millis, !.at = "update"]
    /\ UNCHANGED deviceVars

SimplePollSkip ==
    /\ simple.at = "commands"
    /\ ~(simple.millis - simple.lastCommandCheck > COMMAND_PERIOD_MS)
    /\ simple' = [simple EXCEPT !.at = "update"]
    /\ UNCHANGED deviceVars

\* the block of loop() run when more than 10000 ms have passed:
\* updateFirebaseData, when Firebase.ready(); then the pass ends and dt
\* passes before the next one
SimpleUpdate(ready, ok, dt, maxTime) ==
    LET due == simple.millis - simple.lastFirebaseUpdate > UPDATE_PERIOD_MS
        s1 == IF due
              THEN [(IF ready THEN updateFirebaseData(simple, ok) ELSE simple)
                       EXCEPT !.lastFirebaseUpdate = simple.millis]
              ELSE simple
    IN  /\ simple.at = "update"
        /\ simple.millis + dt <= maxTime
        /\ simple' = [s1 EXCEPT !.millis = simple.millis + dt, !.at = "manual"]
        /\ UNCHANGED deviceVars

\* the remote user changes pump_on in pump_commands/remote_control, at any
\* point of a pass
SimpleRemoteWrite(b) ==
    /\ simple.pump_on # Some(b)
    /\ simple' = [simple EXCEPT !.pump_on = Some(b), !.localOff = FALSE]
    /\ UNCHANGED deviceVars

\* ----------------------------------------------------------- behaviours
Next ==
    \/ \E fell \in BOOLEAN : ButtonStart(fell)
    \/ \E fell \in BOOLEAN : ButtonStop(fell)
    \/ \E r \in Readings, clk \in Clocks : SampleCycle(r, clk)
    \/ SampleSkip
    \/ NetSkip
    \/ NetCycleOnline
    \/ \E up \in BOOLEAN : \E d \in (IF up THEN WifiUpDelays ELSE {WIFI_TIMEOUT_MS}) :
          ConnectWiFi(up, d, DownBoots)
    \/ \E ok \in BOOLEAN, e \in ExpiresIn, d \in HttpDelays : FirebaseSignIn(ok, e, d)
    \/ \E e \in ExpiresIn, getOk, postOk \in BOOLEAN, ds, dg, dp \in HttpDelays :
          EnsureDeviceDoc(TRUE, e, getOk, postOk, ds, dg, dp)
    \/ \E e \in ExpiresIn, ds, dp \in HttpDelays :
          FirestoreUpdateStatus(TRUE, e, FALSE, ds, dp)
    \/ \E e \in ExpiresIn, getOk, parseOk, patchOk \in BOOLEAN, ds, dg, dp \in HttpDelays,
          late \in RelayLateWrites(remote.control) :
          FirestoreFetchAndApply(TRUE, e, getOk, parseOk, patchOk, ds, dg, dp, late)
    \/ \E e \in ExpiresIn, ok \in BOOLEAN, ds, dp \in HttpDelays :
          FirestoreUploadTelemetry(TRUE, e, ok, ds, dp)
    \/ \E d \in HttpDelays : \E k \in 0..LogCap : DrainPending(k, d)
    \/ DrainNothing
    \/ \E dt \in LoopDelays : LoopEnd(dt, MaxNetTime, DownBoots)
    \/ \E c \in Intents : pc \in {"start", "fetch"} /\ RemoteWrite(c)

\* the device with its network and the remote user.  The device reads the
\* control map in the GET of the fetch and nowhere else, so a write of the
\* user is taken at the points that differ for the device: when a pass
\* begins, when the pass has come to its fetch, the document made by
\* ensureDeviceDoc in the same pass included, and while the fetch is between
\* its GET and its PATCH.  The status map is written by the device and never
\* read by it; here its PATCH fails.  SPIFFS mounts at every boot; WiFi is
\* there at power-on and away at a restart.
InitNet == Init /\ SetupMet(PromptBoots) /\ LongLog

Spec == InitNet /\ [][Next]_vars

\* the device where the sign-in is refused: the buttons, the sampling
\* cycle and the log rotation only
InitLocal ==
    /\ Init /\ SetupMet(RefusedBoots \cup NoFsBoots)
    /\ remote = NoDoc /\ pendingLen = None /\ LongLog

NextLocal ==
    \/ \E fell \in BOOLEAN : ButtonStart(fell)
    \/ \E fell \in BOOLEAN : ButtonStop(fell)
    \/ \E r \in Readings, clk \in Clocks : SampleCycle(r, clk)
    \/ SampleSkip
    \/ NetSkip
    \/ NetCycleOnline
    \/ \E e \in ExpiresIn, d \in HttpDelays : FirebaseSignIn(FALSE, e, d)
    \/ \E dt \in LoopDelays : LoopEnd(dt, MaxLocalTime, Boots)

SpecLocal == InitLocal /\ [][NextLocal]_vars

\* evaluateFaults called on its own, on samples around every threshold
FaultVolts == {0, 179, 180, 181, 259, 260, 261}
FaultAmps == {0, 2, 3, 4, 59, 60, 61}
FaultPFs == {0, 49, 50, 51, 100}

EvaluateFaults(V, I, PF) ==
    /\ probe' = Some([V |-> V, I |-> I, PF |-> PF, out |-> evaluateFaults(V, I, PF)])
    /\ UNCHANGED <<pc, now, nowMs, relayVars, timerVars, cfgVars, passVars, authVars,
                   remote, logVars, sinceOff, fresh, applied, drained, setterCalls, saved, simple>>

NextEval == \E V \in FaultVolts, I \in FaultAmps, PF \in FaultPFs : EvaluateFaults(V, I, PF)

SpecEval == InitLocal /\ [][NextEval]_vars

\* the device followed sample by sample, passes at most 500 ms apart, with a
\* WiFi that is down when a network cycle comes and takes its time to
\* associate again; the sign-in is refused
NextSlowNet ==
    \/ \E fell \in BOOLEAN : ButtonStart(fell)
    \/ \E fell \in BOOLEAN : ButtonStop(fell)
    \/ \E r \in Readings, clk \in Clocks : SampleCycle(r, clk)
    \/ SampleSkip
    \/ NetSkip
    \/ NetCycleOnline
    \/ \E d \in WifiUpDelays : ConnectWiFi(TRUE, d, Boots)
    \/ \E e \in ExpiresIn, d \in HttpDelays : FirebaseSignIn(FALSE, e, d)
    \/ \E dt \in SampleDelays : LoopEnd(dt, MaxSampleTime, Boots)

SpecSlowNet == InitLocal /\ [][NextSlowNet]_vars

\* isWithinOnWindow called on its own, under the schedules a boot can load:
\* enabled or not, a season within the year, across the year's end and of
\* one month, a window within the day, across midnight and empty
WindowSeasons == {<<1, 12>>, <<11, 2>>, <<3, 3>>}
WindowTimes == {<<6, 0, 6, 30>>, <<22, 0, 2, 0>>, <<6, 0, 6, 0>>}

WindowPrefs ==
    {PutPrefs([thresholds |-> DefaultThresholds,
               scheduleCfg |->
                  [onHour |-> w[1], onMinute |-> w[2], offHour |-> w[3],
                   offMinute |-> w[4], enabled |-> en,
                   seasonStartMonth |-> m[1], seasonEndMonth |-> m[2]],
               hp |-> DefaultHp]) :
        en \in BOOLEAN, m \in WindowSeasons, w \in WindowTimes}

\* the wall clock of the call: RTC_DS3231::now()
WindowClocks ==
    {[hour |-> t[1], minute |-> t[2], month |-> mon] :
        t \in {<<0, 0>>, <<1, 30>>, <<1, 59>>, <<2, 0>>, <<5, 59>>, <<6, 0>>,
                <<6, 29>>, <<6, 30>>, <<10, 0>>, <<21, 59>>, <<22, 0>>,
                <<23, 30>>, <<23, 59>>},
        mon \in {1, 2, 3, 4, 6, 10, 11, 12}}

IsWithinOnWindow(clk) ==
    /\ probe' = Some([clk |-> clk, out |-> isWithinOnWindow(clk)])
    /\ UNCHANGED <<pc, now, nowMs, relayVars, timerVars, cfgVars, passVars, authVars,
                   remote, logVars, sinceOff, fresh, applied, drained, setterCalls, saved, simple>>

InitWindow ==
    /\ Setup(WindowPrefs, Boots) /\ SetupMet(RefusedBoots)
    /\ remote = NoDoc /\ pendingLen = None /\ LongLog

NextWindow == \E clk \in WindowClocks : IsWithinOnWindow(clk)

SpecWindow == InitWindow /\ [][NextWindow]_vars

\* a PATCH answers at once, or not before the watchdog's timeout
PatchDelays == {0, WDT_TIMEOUT_SEC * 1000}

\* the device and its configuration: the setters, a user who edits the
\* config map of the device document, and the network cycle that fetches
\* it; no button is pressed and no control intent is written.  The document
\* is there from power-on and the device reads its config map in the GET of
\* the fetch only, so a write of the user is taken when a pass begins: a
\* write later in the pass leaves the device as the same write at that
\* point (before the GET) or at the beginning of the next pass (after it)
MaxConfigPeriods == 2
MaxConfigTime == SETUP_DELAY_MS + MaxConfigPeriods * NET_PERIOD_MS
ConfigDelays == {NET_PERIOD_MS}

\* a config map with the single field f of thresholds
NoConfig == NoDoc.cfg
ThresholdOnly(f, v) == [NoConfig EXCEPT !.thresholds[f] = v]

\* the config maps the user writes: one threshold only; a minVoltage over
\* maxVoltage and an hour of 25; an hour that is no number and two fields
\* of the wrong type
ConfigWrites ==
    {ThresholdOnly("maxCurrent_A", Typed("doubleValue", 75)),
     [NoConfig EXCEPT !.thresholds.minVoltage = Typed("doubleValue", 300),
                      !.scheduleCfg.onHour = Typed("integerValue", <<"2", "5">>)],
     [NoConfig EXCEPT !.scheduleCfg.onHour = Typed("integerValue", <<"a", "b", "c">>),
                      !.scheduleCfg.offMinute = Typed("doubleValue", 45),
                      !.thresholds.maxVoltage = Typed("integerValue", <<"2", "5", "0">>)]}

ConfigReadings == {[V |-> Some(230), I |-> Some(20), P |-> Some(414), PF |-> Some(90)]}
ConfigClocks == {[hour |-> 6, minute |-> 10, month |-> 6]}

InitConfig ==
    /\ Setup(BootPrefs \cup {EmptyPrefs}, Boots)
    /\ SetupMet(PromptBoots) /\ remote.exists /\ pendingLen = None /\ LongLog

NextConfig ==
    \/ ButtonStart(FALSE)
    \/ ButtonStop(FALSE)
    \/ \E r \in ConfigReadings, clk \in ConfigClocks : SampleCycle(r, clk)
    \/ SampleSkip
    \/ NetSkip
    \/ NetCycleOnline
    \/ ConnectWiFi(FALSE, WIFI_TIMEOUT_MS, DownBoots)
    \/ \E ok \in BOOLEAN, e \in ExpiresIn, d \in HttpDelays : FirebaseSignIn(ok, e, d)
    \/ \E e \in ExpiresIn, getOk, postOk \in BOOLEAN, ds, dg, dp \in HttpDelays :
          EnsureDeviceDoc(TRUE, e, getOk, postOk, ds, dg, dp)
    \/ \E e \in ExpiresIn, ds, dp \in HttpDelays :
          FirestoreUpdateStatus(TRUE, e, FALSE, ds, dp)
    \/ \E e \in ExpiresIn, getOk, parseOk, patchOk \in BOOLEAN, ds, dg, dp \in HttpDelays,
          late \in {None} :
          FirestoreFetchAndApply(TRUE, e, getOk, parseOk, patchOk, ds, dg, dp, late)
    \/ \E e \in ExpiresIn, ok \in BOOLEAN, ds, dp \in HttpDelays :
          FirestoreUploadTelemetry(TRUE, e, ok, ds, dp)
    \/ DrainNothing
    \/ \E dt \in ConfigDelays : LoopEnd(dt, MaxConfigTime, Boots)
    \/ \E cfg \in ConfigWrites : pc = "start" /\ RemoteConfigWrite(cfg)
    \/ setMaxCurrent(80)
    \/ setMinPF(40)
    \/ setMinCurrent(5)
    \/ \E V \in {170, 270} : setMinVoltage(V)
    \/ setMaxVoltage(250)
    \/ setHP(20)
    \/ \E onH \in {5, 24} : setSchedule(onH, 0, 7, 0, TRUE, 3, 9)

SpecConfig == InitConfig /\ [][NextConfig]_vars

\* the device, its Preferences and its restarts: the setters, a user who
\* edits the config map and writes the intent clearManual between two passes
\* of loop(), and a network cycle whose requests succeed, but for WiFi that
\* may be away and the PATCH of the fetch that may block, both until the
\* watchdog restarts the device; WiFi is away when the device restarts
InitPersist == InitConfig /\ SetupMet(AcceptedBoots)

NextPersist ==
    \/ ButtonStart(FALSE)
    \/ ButtonStop(FALSE)
    \/ \E r \in ConfigReadings, clk \in ConfigClocks : SampleCycle(r, clk)
    \/ SampleSkip
    \/ NetSkip
    \/ NetCycleOnline
    \/ ConnectWiFi(FALSE, WIFI_TIMEOUT_MS, DownBoots)
    \/ \E e \in ExpiresIn, d \in HttpDelays : FirebaseSignIn(TRUE, e, d)
    \/ \E e \in ExpiresIn, ds, dg, dp \in HttpDelays :
          EnsureDeviceDoc(TRUE, e, TRUE, TRUE, ds, dg, dp)
    \/ \E e \in ExpiresIn, ds, dp \in HttpDelays :
          FirestoreUpdateStatus(TRUE, e, TRUE, ds, dp)
    \/ \E e \in ExpiresIn, ds, dg \in HttpDelays, dp \in PatchDelays :
          FetchAndApply(TRUE, e, TRUE, TRUE, TRUE, ds, dg, dp, None, DownBoots)
    \/ \E e \in ExpiresIn, ds, dp \in HttpDelays :
          FirestoreUploadTelemetry(TRUE, e, TRUE, ds, dp)
    \/ DrainNothing
    \/ \E dt \in ConfigDelays : LoopEnd(dt, MaxConfigTime, Boots)
    \/ \E cfg \in ConfigWrites : pc = "start" /\ RemoteConfigWrite(cfg)
    \/ RemoteWrite([NoIntent EXCEPT !.clearManual = TRUE])
    \/ setMaxCurrent(80)
    \/ setMinPF(40)
    \/ setMinCurrent(5)
    \/ setMinVoltage(170)
    \/ setMaxVoltage(250)
    \/ setHP(20)
    \/ setSchedule(5, 0, 7, 0, TRUE, 3, 9)

SpecPersist == InitPersist /\ [][NextPersist]_vars

\* the network cycle with every request free to fail, one pass every
\* NET_PERIOD_MS on one good sample; the user writes intents and config
\* maps at the points that differ for the device: when a pass begins and
\* when the pass has come to its fetch, the document made by
\* ensureDeviceDoc in the same pass included
NextFail ==
    \/ \E fell \in BOOLEAN : ButtonStart(fell)
    \/ ButtonStop(FALSE)
    \/ \E r \in ConfigReadings, clk \in ConfigClocks : SampleCycle(r, clk)
    \/ SampleSkip
    \/ NetSkip
    \/ NetCycleOnline
    \/ \E ok \in BOOLEAN, e \in ExpiresIn, d \in HttpDelays : FirebaseSignIn(ok, e, d)
    \/ \E e \in ExpiresIn, getOk, postOk \in BOOLEAN, ds, dg, dp \in HttpDelays :
          EnsureDeviceDoc(TRUE, e, getOk, postOk, ds, dg, dp)
    \/ \E e \in ExpiresIn, ds, dp \in HttpDelays :
          FirestoreUpdateStatus(TRUE, e, FALSE, ds, dp)
    \/ \E e \in ExpiresIn, getOk, parseOk, patchOk \in BOOLEAN, ds, dg, dp \in HttpDelays,
          late \in RelayLateWrites(remote.control) :
          FirestoreFetchAndApply(TRUE, e, getOk, parseOk, patchOk, ds, dg, dp, late)
    \/ \E e \in ExpiresIn, ok \in BOOLEAN, ds, dp \in HttpDelays :
          FirestoreUploadTelemetry(TRUE, e, ok, ds, dp)
    \/ \E d \in HttpDelays : \E k \in 0..LogCap : DrainPending(k, d)
    \/ DrainNothing
    \/ \E dt \in ConfigDelays : LoopEnd(dt, MaxConfigTime, Boots)
    \/ \E c \in Intents : pc \in {"start", "fetch"} /\ RemoteWrite(c)
    \/ \E cfg \in ConfigWrites : pc \in {"start", "fetch"} /\ RemoteConfigWrite(cfg)

SpecFail == InitNet /\ [][NextFail]_vars

\* the device and its log over several rotation periods: the buttons and
\* the sampling cycle write the log, the sign-in is refused, so nothing
\* drains the pending file
MaxRotatePeriods == 2
MaxRotateTime == SETUP_DELAY_MS + MaxRotatePeriods * ROTATE_PERIOD_MS

InitLog ==
    /\ Init /\ SetupMet(RefusedBoots \cup NoFsBoots)
    /\ remote = NoDoc /\ simple = SimpleSetup(None)

NextLog ==
    \/ \E fell \in BOOLEAN : ButtonStart(fell)
    \/ \E fell \in BOOLEAN : ButtonStop(fell)
    \/ \E r \in ConfigReadings, clk \in ConfigClocks : SampleCycle(r, clk)
    \/ SampleSkip
    \/ NetSkip
    \/ NetCycleOnline
    \/ \E e \in ExpiresIn, d \in HttpDelays : FirebaseSignIn(FALSE, e, d)
    \/ \E dt \in LoopDelays : LoopEnd(dt, MaxRotateTime, Boots)

SpecLog == InitLog /\ [][NextLog]_vars

\* the device with no network at all: every network cycle finds WiFi down
\* and connectWiFi runs its 12 s out
NextOffline ==
    \/ \E fell \in BOOLEAN : ButtonStart(fell)
    \/ \E fell \in BOOLEAN : ButtonStop(fell)
    \/ \E r \in Readings, clk \in Clocks : SampleCycle(r, clk)
    \/ SampleSkip
    \/ NetSkip
    \/ ConnectWiFi(FALSE, WIFI_TIMEOUT_MS, OfflineBoots)
    \/ \E dt \in LoopDelays \cup SampleDelays : LoopEnd(dt, MaxLocalTime, Boots)

InitOffline ==
    /\ Init /\ SetupMet(RefusedBoots \cup OfflineBoots)
    /\ remote = NoDoc /\ pendingLen = None /\ LongLog

SpecOffline == InitOffline /\ [][NextOffline]_vars

\* the device on a network where every request succeeds, with the remote
\* user writing intents and nobody at the buttons.  A write of the user lands
\* at any point of a pass (RemoteWrite), also while the fetch is between its
\* GET and its PATCH (the parameter late of FetchAndApply).  The PATCH of the
\* status update and the PATCH of the fetch may block until the watchdog
\* restarts the device, which then finds the network as before.
MaxRemotePeriods == 2
MaxRemoteTime == SETUP_DELAY_MS + MaxRemotePeriods * NET_PERIOD_MS

NextRemote ==
    \/ ButtonStart(FALSE)
    \/ ButtonStop(FALSE)
    \/ \E r \in Readings, clk \in Clocks : SampleCycle(r, clk)
    \/ SampleSkip
    \/ NetSkip
    \/ NetCycleOnline
    \/ \E e \in ExpiresIn, d \in HttpDelays : FirebaseSignIn(TRUE, e, d)
    \/ \E e \in ExpiresIn, ds, dg, dp \in HttpDelays :
          EnsureDeviceDoc(TRUE, e, TRUE, TRUE, ds, dg, dp)
    \/ \E e \in ExpiresIn, ds \in HttpDelays, dp \in PatchDelays :
          UpdateStatus(TRUE, e, TRUE, ds, dp, AcceptedBoots)
    \/ \E e \in ExpiresIn, ds, dg \in HttpDelays, dp \in PatchDelays, late \in LateWrites :
          FetchAndApply(TRUE, e, TRUE, TRUE, TRUE, ds, dg, dp, late, AcceptedBoots)
    \/ \E e \in ExpiresIn, ds, dp \in HttpDelays :
          FirestoreUploadTelemetry(TRUE, e, TRUE, ds, dp)
    \/ \E d \in HttpDelays : \E k \in 0..LogCap : DrainPending(k, d)
    \/ DrainNothing
    \/ \E dt \in LoopDelays : LoopEnd(dt, MaxRemoteTime, Boots)
    \/ \E c \in Intents : RemoteWrite(c)

InitRemote == Init /\ SetupMet(AcceptedBoots) /\ LongLog

SpecRemote == InitRemote /\ [][NextRemote]_vars

\* the device without a network, with a meter that reads what the pump
\* draws: the readings of Readings while the relay is closed, and while it is
\* open the mains voltage with no current and no power, the power factor
\* being 0.00 or not a number
IdleReadings ==
    {[V |-> Some(230), I |-> Some(0), P |-> Some(0), PF |-> Some(0)],
     [V |-> Some(230), I |-> Some(0), P |-> Some(0), PF |-> None]}

MeterReadings == IF relayPhysical THEN Readings ELSE IdleReadings

NextIdle ==
    \/ \E fell \in BOOLEAN : ButtonStart(fell)
    \/ \E fell \in BOOLEAN : ButtonStop(fell)
    \/ \E r \in MeterReadings, clk \in Clocks : SampleCycle(r, clk)
    \/ SampleSkip
    \/ NetSkip
    \/ NetCycleOnline
    \/ \E e \in ExpiresIn, d \in HttpDelays : FirebaseSignIn(FALSE, e, d)
    \/ \E dt \in LoopDelays : LoopEnd(dt, MaxLocalTime, Boots)

SpecIdle == InitLocal /\ [][NextIdle]_vars

\* the device without a network around the wrap of millis().  Counter values
\* are held in two's complement, so the values before the wrap are the
\* negative ones and the signed order of the values met here is the order of
\* time.  InitWrap is the device WrapLeadPeriods * 5000 ms before the wrap,
\* with the pump never started since boot and every sign-in refused: the
\* pass before has run the sampling block, on a loaded pump's reading outside
\* the schedule's window, the network cycle and the rotation check; the long
\* log that power-on found went to the pending file at the first rotation,
\* nothing has drained it and nothing has been logged since.
WrapLeadPeriods == 3
MaxWrapPeriods == 3
WrapStart == 0 - WrapLeadPeriods * NET_PERIOD_MS
MaxWrapTime == MaxWrapPeriods * NET_PERIOD_MS

InitWrap ==
    /\ pc = "start"
    /\ now = WrapStart
    /\ nowMs = WrapStart
    /\ relayCommand = FALSE
    /\ relayPhysical = FALSE
    /\ manualPriority = FALSE
    /\ lastFault = "OK"
    /\ prefs \in BootPrefs
    /\ thresholds = loadPrefs(prefs).thresholds
    /\ scheduleCfg = loadPrefs(prefs).scheduleCfg
    /\ hp = loadPrefs(prefs).hp
    /\ lastOffMs = 0
    /\ faultLockUntil = 0
    /\ lastSampleMs = WrapStart
    /\ lastNetMs = WrapStart
    /\ lastRotateMs = WrapStart
    /\ wasRunning = FALSE
    /\ runStartMs = 0
    /\ meas = [V |-> 230, I |-> 20, P |-> 414, PF |-> 90]
    /\ idToken = FALSE
    /\ tokenExpiryMs = 0
    /\ remote = NoDoc
    /\ logTail = <<>>
    /\ logLen = 0
    /\ pendingLen = Some(LogCap)
    /\ mounted = TRUE
    /\ sinceOff = MIN_OFF_MS
    /\ fresh = FALSE
    /\ applied = NoIntent
    /\ drained = None
    /\ probe = None
    /\ setterCalls = 0
    /\ saved = FALSE
    /\ simple = SimpleSetup(None)

NextWrap ==
    \/ \E fell \in BOOLEAN : ButtonStart(fell)
    \/ \E fell \in BOOLEAN : ButtonStop(fell)
    \/ \E r \in Readings, clk \in Clocks : SampleCycle(r, clk)
    \/ SampleSkip
    \/ NetSkip
    \/ NetCycleOnline
    \/ \E e \in ExpiresIn, d \in HttpDelays : FirebaseSignIn(FALSE, e, d)
    \/ \E dt \in LoopDelays : LoopEnd(dt, MaxWrapTime, Boots)

SpecWrap == InitWrap /\ [][NextWrap]_vars

\* the simple firmware with its buttons, its meter and the remote user
MaxSimplePeriods == 3
MaxSimpleTime == SIMPLE_SETUP_DELAY_MS + MaxSimplePeriods * COMMAND_PERIOD_MS

NextSimple ==
    \/ \E startLow, stopLow, ok1, ok2 \in BOOLEAN :
          handleManualControls(startLow, stopLow, ok1, ok2)
    \/ \E r \in SimpleReadings, ok \in BOOLEAN : SimpleSample(r, ok)
    \/ SimpleSampleSkip
    \/ \E ready, getOk, ok \in BOOLEAN : SimplePoll(ready, getOk, ok)
    \/ SimplePollSkip
    \/ \E ready, ok \in BOOLEAN, dt \in SimpleDelays :
          SimpleUpdate(ready, ok, dt, MaxSimpleTime)
    \/ \E b \in BOOLEAN : SimpleRemoteWrite(b)

\* the full firmware as in InitLocal, the simple firmware with whatever
\* live_status its setup() leaves
InitSimple ==
    /\ Init /\ SetupMet(RefusedBoots)
    /\ remote = NoDoc /\ pendingLen = None
    /\ logLen = LogCap

SpecSimple == InitSimple /\ [][NextSimple]_vars

\* ------------------------------------------------------------- properties
\* the sampling block has run in this step
Sampled == pc = "sample" /\ lastSampleMs' # lastSampleMs

\* the fault classification of the sample this step has taken
SampledFault == evaluateFaults(meas'.V, meas'.I, meas'.PF)

\* the fault events among the entries this step has appended
FaultEvents == SelectSeq(logTail', LAMBDA en : en.type = "fault")

\* C1 (anti-chatter): every physical off->on transition of the relay comes
\* at least MIN_OFF_MS after the latest physical on->off transition,
\* whoever asks for it.
C1_AntiChatter ==
    [][(~relayPhysical /\ relayPhysical') => sinceOff' >= MIN_OFF_MS]_vars

\* C2 (fault lockout): from a fault trip until faultLockUntil the relay is
\* never physically on, whoever asks for it.
C2_FaultLockout == relayPhysical => Ge32(now, faultLockUntil)

\* C3 (fault trip): a sampling cycle that classifies its sample as a fault
\* while the relay is physically on ends with the relay off, the latch
\* cleared, lastOffMs = now, faultLockUntil = now + FAULT_LOCK_MS, lastFault
\* the name of the fault, and exactly one fault event appended, carrying the
\* sample's V, I and PF.
C3_FaultTrip ==
    [][(Sampled /\ relayPhysical /\ SampledFault # "FAULT_NONE") =>
          /\ ~relayPhysical'
          /\ ~manualPriority'
          /\ lastOffMs' = now'
          /\ faultLockUntil' = now' + FAULT_LOCK_MS
          /\ lastFault' = faultToString(SampledFault)
          /\ lastFault' \in {"DRY RUN", "OVERLOAD", "UNDER VOLT", "OVER VOLT"}
          /\ Len(FaultEvents) = 1
          /\ FaultEvents[1].text = lastFault'
          /\ FaultEvents[1].x = meas'.V
          /\ FaultEvents[1].y = meas'.I
          /\ FaultEvents[1].z = meas'.PF]_vars

\* C4 (fault precedence): the relay does not go physically on while the
\* latest sample is classified as a fault, that is, while lastFault names a
\* fault.
C4_FaultPrecedence ==
    [][(~relayPhysical /\ relayPhysical') => lastFault' \in {"OK", "LOCKOUT"}]_vars

\* C5 (every fault recovered and recorded): after every sampling cycle
\* whose sample is classified as a fault, the relay is off, a lockout is in
\* force and a fault event has been appended, whether the relay was on or
\* off before.
C5_EveryFaultLocksOut ==
    [][(Sampled /\ SampledFault # "FAULT_NONE") =>
          /\ ~relayPhysical'
          /\ Lt32(now', faultLockUntil')
          /\ Len(FaultEvents) >= 1]_vars

\* a watchdog restart: the pass is cut and setup() runs.  A pass that ends
\* leaves nowMs and lastNetMs alone: it looks like a restart only when it
\* took no time and no network cycle has run since boot, and such a pass is
\* not cut.
Restarted ==
    /\ pc # "start"
    /\ pc' = "start"
    /\ pc = "rotate" => /\ nowMs' = now'
                        /\ lastNetMs' = 0
                        /\ (lastNetMs # 0 \/ now # nowMs)

\* C6 (off is stamped): every physical on->off transition sets lastOffMs to
\* the time of the transition (a restart, whose setup() stamps lastOffMs on
\* the counter it has restarted, left aside).
C6_OffStampsLastOff ==
    [][(relayPhysical /\ ~relayPhysical' /\ ~Restarted) => lastOffMs' = now']_vars

\* C7 (one-shot intents): a reconciliation cycle applies an intent only if
\* the intent has been written since the last one was applied.
C7_IntentOneShot ==
    [][(AnyIntent(applied') /\ ~AnyIntent(applied)) => fresh]_vars

\* C8 (pending drain): when a drain has had an entry refused, the pending
\* batch is still there, unchanged, after it.
C8_DrainKeepsRefusedBatch ==
    (pc = "rotate" /\ drained # None /\ Val(drained).accepted < Val(drained).size)
        => pendingLen = Some(Val(drained).size)

\* C9 (manual stop): a stop edge leaves the relay physically off and
\* lastOffMs = now, in every state it comes in.
C9_ManualStop ==
    [][ButtonStop(TRUE) =>
          /\ ~relayPhysical'
          /\ ~relayCommand'
          /\ lastOffMs' = now']_vars

\* C9, its case: a stop edge taken with the relay already off, while a
\* fault lockout and the anti-chatter time of the trip were running
C9_Witness ==
    /\ pc = "sample"
    /\ logTail = <<Entry("button", "Manual OFF", 0, 0, 0)>>
    /\ ~relayPhysical
    /\ wasRunning = FALSE
    /\ lastOffMs = now
    /\ Lt32(now, faultLockUntil)
    /\ faultLockUntil > FAULT_LOCK_MS
    /\ now - (faultLockUntil - FAULT_LOCK_MS) < MIN_OFF_MS

\* C10 (manual start): a start edge switches the relay on if
\* now - lastOffMs >= MIN_OFF_MS and now >= faultLockUntil; otherwise it
\* leaves the physical state as it is and logs the blocked start.
C10_ManualStart ==
    [][ButtonStart(TRUE) =>
          IF now - lastOffMs >= MIN_OFF_MS /\ now >= faultLockUntil
          THEN relayPhysical'
          ELSE /\ relayPhysical' = relayPhysical
               /\ logTail' = <<Entry("button", "ON blocked (cooldown/lockout)", 0, 0, 0)>>]_vars

\* C11 (latch set by every edge): a start edge, accepted or rejected, and a
\* stop edge each leave manualPriority true.
C11_EdgesSetLatch ==
    [][(ButtonStart(TRUE) \/ ButtonStop(TRUE)) => manualPriority']_vars

\* C11, its case: a start edge rejected during the lockout of a fault trip,
\* which had cleared the latch, has set the latch
C11_Witness ==
    /\ pc = "stop"
    /\ logTail = <<Entry("button", "ON blocked (cooldown/lockout)", 0, 0, 0)>>
    /\ ~relayPhysical
    /\ manualPriority
    /\ Lt32(now, faultLockUntil)
    /\ lastOffMs = faultLockUntil - FAULT_LOCK_MS

\* C12 (latch holds the schedule off): a sampling cycle with the latch set
\* and a clean sample changes neither the commanded nor the physical state
\* of the relay, whatever the schedule says.
C12_LatchedSampleKeepsRelay ==
    [][(Sampled /\ manualPriority /\ SampledFault = "FAULT_NONE") =>
          /\ relayCommand' = relayCommand
          /\ relayPhysical' = relayPhysical
          /\ manualPriority']_vars

\* C12, its case: a clean sample has been taken with the latch set and the
\* relay on, the pump running since an earlier pass
C12_Witness ==
    /\ pc = "net"
    /\ lastSampleMs = now
    /\ manualPriority
    /\ relayPhysical
    /\ relayCommand
    /\ lastFault = "OK"
    /\ wasRunning
    /\ runStartMs < now

\* C13 (latch cleared only by clearManual or a trip): manualPriority goes
\* from true to false only when a clearManual intent is applied or a fault
\* trips the relay (a restart, which loses all of RAM, left aside); applying
\* forceOn or forceOff without clearManual leaves the latch as it was.
C13_LatchClearedOnlyByClearOrTrip ==
    [][/\ (manualPriority /\ ~manualPriority' /\ ~Restarted) =>
              \/ (~AnyIntent(applied) /\ applied'.clearManual)
              \/ (Sampled /\ relayPhysical /\ SampledFault # "FAULT_NONE")
       /\ (~AnyIntent(applied) /\ AnyIntent(applied') /\ ~applied'.clearManual) =>
              manualPriority' = manualPriority]_vars

\* C14 (forceOn with forceOff): applying a control map with forceOn and
\* forceOff both true changes neither the commanded nor the physical state
\* of the relay, nor lastOffMs.
C14_BothForcesNoOp ==
    [][(~AnyIntent(applied) /\ applied'.forceOn /\ applied'.forceOff) =>
          /\ relayCommand' = relayCommand
          /\ relayPhysical' = relayPhysical
          /\ lastOffMs' = lastOffMs]_vars

\* C14, its case: forceOn with forceOff has been applied to a running pump
C14_Witness ==
    /\ pc = "telemetry"
    /\ applied = [forceOn |-> TRUE, forceOff |-> TRUE, clearManual |-> FALSE]
    /\ relayPhysical
    /\ relayCommand

\* C15 (schedule tracking): a sampling cycle with a clean sample and the
\* latch clear leaves the commanded state equal to isWithinOnWindow of the
\* clock; it switches the relay on iff the window is open, now - lastOffMs
\* >= MIN_OFF_MS and now >= faultLockUntil, and leaves it off if the window
\* is closed.
C15_ScheduleTracks ==
    [][\A r \in Readings, clk \in Clocks :
          (SampleCycle(r, clk) /\ ~manualPriority /\ SampledFault = "FAULT_NONE") =>
              /\ relayCommand' = isWithinOnWindow(clk)
              /\ (~relayPhysical /\ relayPhysical') <=>
                    /\ ~relayPhysical
                    /\ isWithinOnWindow(clk)
                    /\ now - lastOffMs >= MIN_OFF_MS
                    /\ now >= faultLockUntil
              /\ ~isWithinOnWindow(clk) => ~relayPhysical']_vars

\* C15, its case: the schedule has started the pump in the sampling cycle
\* at which the lockout of an earlier trip ran out
C15_Witness ==
    /\ pc = "net"
    /\ lastSampleMs = now
    /\ relayPhysical
    /\ relayCommand
    /\ ~manualPriority
    /\ runStartMs = now
    /\ faultLockUntil > 0
    /\ now = faultLockUntil

\* C16 (faults are not cleared by clean samples): lastFault is not "OK" at
\* any time before faultLockUntil, and it goes to "OK" only in a sampling
\* cycle with a clean sample taken at or after faultLockUntil.
C16_FaultHeldThroughLockout ==
    /\ [](Lt32(now, faultLockUntil) => lastFault # "OK")
    /\ [][(lastFault # "OK" /\ lastFault' = "OK") =>
             /\ Sampled
             /\ SampledFault = "FAULT_NONE"
             /\ now' >= faultLockUntil']_vars

\* C16, its case: after a trip and its lockout, a clean sample at
\* faultLockUntil has brought lastFault back to "OK"
C16_Witness ==
    /\ pc = "net"
    /\ lastSampleMs = now
    /\ lastFault = "OK"
    /\ faultLockUntil > 0
    /\ now = faultLockUntil

\* C17 (network does not delay the fault response): while the relay is on,
\* no more than one sampling period passes without a sample, whatever the
\* network cycle is doing; so a reading that turns faulty switches the relay
\* off within SAMPLE_PERIOD_MS.
C17_SampledEveryPeriod ==
    relayPhysical => Sub32(now, lastSampleMs) <= SAMPLE_PERIOD_MS

\* the meter does not answer: every reading is NaN
NoReading == [V |-> None, I |-> None, P |-> None, PF |-> None]

\* C18 (no reading is no fault): a sampling cycle in which the meter
\* returns NaN works on V = 0, I = 0, P = 0, PF = 1.0, and that sample is
\* not a fault: it sets no lockout, trips no running relay and does not set
\* lastFault to "UNDER VOLT".
C18_NoReadingIsNoFault ==
    [][(\E clk \in Clocks : SampleCycle(NoReading, clk)) =>
          /\ meas' = [V |-> 0, I |-> 0, P |-> 0, PF |-> 100]
          /\ lastFault' # "UNDER VOLT"
          /\ faultLockUntil' = faultLockUntil]_vars

\* C19 (fault chain): evaluateFaults is the first-match chain: undervoltage
\* if V < minVoltage, whatever the current and power factor, else
\* overvoltage if V > maxVoltage, else overload if I > maxCurrent_A, else dry
\* run if I <= minCurrent_A and PF <= minPF, else none; and a call of it
\* changes no relay or timer state.
C19_FaultChain ==
    /\ [](probe # None =>
            LET s == Val(probe)
            IN  /\ s.V < thresholds.minVoltage => s.out = "FAULT_UNDERVOLT"
                /\ (s.V >= thresholds.minVoltage /\ s.V > thresholds.maxVoltage)
                      => s.out = "FAULT_OVERVOLT"
                /\ (s.V >= thresholds.minVoltage /\ s.V <= thresholds.maxVoltage
                    /\ s.I > thresholds.maxCurrent_A) => s.out = "FAULT_OVERLOAD"
                /\ (s.V >= thresholds.minVoltage /\ s.V <= thresholds.maxVoltage
                    /\ s.I <= thresholds.maxCurrent_A
                    /\ s.I <= thresholds.minCurrent_A /\ s.PF <= thresholds.minPF)
                      => s.out = "FAULT_DRYRUN"
                /\ (s.V >= thresholds.minVoltage /\ s.V <= thresholds.maxVoltage
                    /\ s.I <= thresholds.maxCurrent_A
                    /\ ~(s.I <= thresholds.minCurrent_A /\ s.PF <= thresholds.minPF))
                      => s.out = "FAULT_NONE")
    /\ [][probe' # probe => UNCHANGED <<relayVars, timerVars>>]_vars

\* C19, its case: a sample under minVoltage with no current at all, which
\* also meets both dry-run conditions, is undervoltage
C19_Witness ==
    /\ probe # None
    /\ Val(probe).V = 179
    /\ Val(probe).I = 0
    /\ Val(probe).PF = 0
    /\ Val(probe).out = "FAULT_UNDERVOLT"

\* C20 (dry run needs both): for a sample with voltage within [minVoltage,
\* maxVoltage] and current <= maxCurrent_A, evaluateFaults answers dry run
\* iff I <= minCurrent_A and PF <= minPF; with one of the two only it
\* answers none.
C20_DryRunNeedsBoth ==
    (/\ probe # None
     /\ Val(probe).V >= thresholds.minVoltage
     /\ Val(probe).V <= thresholds.maxVoltage
     /\ Val(probe).I <= thresholds.maxCurrent_A)
        => /\ (Val(probe).out = "FAULT_DRYRUN") <=>
                  (Val(probe).I <= thresholds.minCurrent_A /\ Val(probe).PF <= thresholds.minPF)
           /\ Val(probe).out \in {"FAULT_DRYRUN", "FAULT_NONE"}

\* C20, its case: the current is at minCurrent_A and the power factor is
\* above minPF: no fault
C20_Witness ==
    /\ probe # None
    /\ Val(probe).V = 180
    /\ Val(probe).I = 3
    /\ Val(probe).PF = 51
    /\ Val(probe).out = "FAULT_NONE"

\* the minute of the day of a clock reading or of an hour and a minute
MinuteOfDay(h, m) == h * 60 + m

\* the months of the season and the minutes of the day of the on-window, as
\* the schedule's contract gives them
SeasonMonths(sch) ==
    IF sch.seasonStartMonth <= sch.seasonEndMonth
    THEN sch.seasonStartMonth .. sch.seasonEndMonth
    ELSE (sch.seasonStartMonth .. 12) \cup (1 .. sch.seasonEndMonth)

WindowMinutes(sch) ==
    LET on == MinuteOfDay(sch.onHour, sch.onMinute)
        off == MinuteOfDay(sch.offHour, sch.offMinute)
    IN  IF on < off THEN on .. (off - 1)
        ELSE IF on > off THEN (on .. 1439) \cup (0 .. (off - 1))
        ELSE {}

\* C21 (schedule window): isWithinOnWindow answers true exactly when the
\* schedule is enabled, the month is one of the season's months (start..end,
\* or start..12 and 1..end when start > end) and the minute of the day is in
\* the window ([on, off), or [on, 1440) and [0, off) when on > off, and no
\* minute when on = off); so 22:00-02:00 holds 23:30 and 01:30 and not
\* 10:00, and the season 11..2 holds months 12 and 1 and not 6.
C21_WindowReference ==
    probe # None =>
        LET clk == Val(probe).clk
        IN  /\ Val(probe).out <=>
                  /\ scheduleCfg.enabled
                  /\ clk.month \in SeasonMonths(scheduleCfg)
                  /\ MinuteOfDay(clk.hour, clk.minute) \in WindowMinutes(scheduleCfg)
            /\ (/\ scheduleCfg.enabled
                /\ <<scheduleCfg.onHour, scheduleCfg.onMinute>> = <<22, 0>>
                /\ <<scheduleCfg.offHour, scheduleCfg.offMinute>> = <<2, 0>>
                /\ <<scheduleCfg.seasonStartMonth, scheduleCfg.seasonEndMonth>> = <<11, 2>>)
                  => /\ (clk.month \in {12, 1} /\ <<clk.hour, clk.minute>> = <<23, 30>>)
                          => Val(probe).out
                     /\ (clk.month \in {12, 1} /\ <<clk.hour, clk.minute>> = <<1, 30>>)
                          => Val(probe).out
                     /\ <<clk.hour, clk.minute>> = <<10, 0>> => ~Val(probe).out
                     /\ clk.month = 6 => ~Val(probe).out

\* C21, its case: the window 22:00-02:00 in the season 11..2, asked at 01:30
\* in month 12, is open
C21_Witness ==
    /\ probe # None
    /\ scheduleCfg.enabled
    /\ <<scheduleCfg.onHour, scheduleCfg.offHour>> = <<22, 2>>
    /\ <<scheduleCfg.seasonStartMonth, scheduleCfg.seasonEndMonth>> = <<11, 2>>
    /\ Val(probe).clk = [hour |-> 1, minute |-> 30, month |-> 12]
    /\ Val(probe).out

\* a step of firestoreFetchAndApply, whatever its requests answer
FetchStep ==
    \E e \in ExpiresIn, getOk, parseOk, patchOk \in BOOLEAN, ds, dg, dp \in HttpDelays :
        FirestoreFetchAndApply(TRUE, e, getOk, parseOk, patchOk, ds, dg, dp, None)

\* C22 (fetch frame): a step of firestoreFetchAndApply leaves every
\* threshold, every schedule field and the horsepower that the fetched
\* document does not carry at its previous local value; a document with
\* maxCurrent_A only changes no other threshold and no schedule field.
C22_AbsentFieldsKept ==
    [][FetchStep =>
         /\ \A f \in DOMAIN thresholds :
               remote.cfg.thresholds[f] = None => thresholds'[f] = thresholds[f]
         /\ \A f \in DOMAIN scheduleCfg :
               remote.cfg.scheduleCfg[f] = None => scheduleCfg'[f] = scheduleCfg[f]
         /\ remote.cfg.hp = None => hp' = hp
         /\ remote.cfg = ThresholdOnly("maxCurrent_A", Typed("doubleValue", 75))
               => /\ thresholds' = [thresholds EXCEPT !.maxCurrent_A = thresholds'.maxCurrent_A]
                  /\ scheduleCfg' = scheduleCfg
                  /\ hp' = hp]_vars

\* C22, its case: the document with maxCurrent_A = 7.5 only has been
\* fetched by a device whose minVoltage a setter had moved off its default:
\* maxCurrent_A is the document's and minVoltage is still the setter's
C22_Witness ==
    /\ pc = "telemetry"
    /\ remote.cfg = ThresholdOnly("maxCurrent_A", Typed("doubleValue", 75))
    /\ thresholds.maxCurrent_A = 75
    /\ thresholds.minVoltage = 170
    /\ thresholds.maxVoltage = DefaultThresholds.maxVoltage
    /\ scheduleCfg = DefaultSchedule
    /\ hp = DefaultHp

\* decimal text of an integer: an optional sign and one digit or more
ValidIntText(txt) ==
    LET body == IF txt # <<>> /\ Head(txt) \in {"-", "+"} THEN Tail(txt) ELSE txt
    IN  body # <<>> /\ \A i \in 1..Len(body) : IsDigit(body[i])

\* the document field o is there and is not a well-formed value of `type`
Malformed(o, type) ==
    /\ o # None
    /\ \/ Val(o).type # type
       \/ type = "integerValue" /\ ~ValidIntText(Val(o).value)

\* C23 (malformed field): a step of firestoreFetchAndApply leaves a local
\* field at its previous value when the document's field is of the wrong
\* type or, for a schedule integer, is not the text of a number; no other
\* value, such as 0, is stored in it.
C23_MalformedNotApplied ==
    [][FetchStep =>
         /\ \A f \in DOMAIN thresholds :
               Malformed(remote.cfg.thresholds[f], "doubleValue")
                  => thresholds'[f] = thresholds[f]
         /\ \A f \in DOMAIN scheduleCfg \ {"enabled"} :
               Malformed(remote.cfg.scheduleCfg[f], "integerValue")
                  => scheduleCfg'[f] = scheduleCfg[f]]_vars

\* C24 (thresholds invariant): whatever boot loads, setter calls and fetched
\* documents came before, minVoltage < maxVoltage and minCurrent_A >= 0.
C24_ThresholdsInvariant ==
    /\ thresholds.minVoltage < thresholds.maxVoltage
    /\ thresholds.minCurrent_A >= 0

\* C25 (schedule invariant): whatever boot loads, setSchedule calls and
\* fetched documents came before, onHour and offHour are in 0..23, onMinute
\* and offMinute in 0..59, seasonStartMonth and seasonEndMonth in 1..12.
C25_ScheduleInvariant ==
    /\ scheduleCfg.onHour \in 0..23
    /\ scheduleCfg.offHour \in 0..23
    /\ scheduleCfg.onMinute \in 0..59
    /\ scheduleCfg.offMinute \in 0..59
    /\ scheduleCfg.seasonStartMonth \in 1..12
    /\ scheduleCfg.seasonEndMonth \in 1..12

\* the 30 s rotation of this step finds the log at its size bound and moves it
Rotates ==
    /\ pc = "rotate"
    /\ pc' = "start"
    /\ ~Restarted
    /\ Ge32(Sub32(nowMs, lastRotateMs), ROTATE_PERIOD_MS)
    /\ logLen >= LogMaxEntries

\* C26 (one pending batch): a rotation leaves the active log empty and the
\* pending file with exactly the entries the active log had, whether or not
\* a pending file was there before: an undrained batch is replaced, its
\* entries are not kept.
C26_RotationReplacesPending ==
    [][Rotates => logLen' = 0 /\ pendingLen' = Some(logLen)]_vars

\* C26, its case: the rotation at 30 s moved a log of LogCap entries or more
\* into the pending file, nothing drained it, and the rotation at 60 s has
\* left the LogMaxEntries entries written since in its place
C26_Witness ==
    /\ lastRotateMs = SETUP_DELAY_MS + 2 * ROTATE_PERIOD_MS
    /\ pc = "start"
    /\ logLen = 0
    /\ pendingLen = Some(LogMaxEntries)

\* the lifecycle events of the given text among the entries this step has appended
RunEvents(text) == SelectSeq(logTail', LAMBDA en : en.type = "run" /\ en.text = text)

\* the relay is off after this step and went off after the sampling block
\* before this one (at millis() = now - sinceOff, which is known while
\* sinceOff has not reached MIN_OFF_MS)
WentOffSinceLastSample ==
    /\ ~relayPhysical'
    /\ sinceOff' < MIN_OFF_MS
    /\ Sub32(now, sinceOff') > lastSampleMs

\* C27 (lifecycle events): every physical transition is followed by its
\* lifecycle event.  The sampling block is the only writer of these events
\* and reports nothing later of what it leaves out, so: a sampling block
\* that finds the relay off, after an on->off transition that came since
\* the block before it, writes a "run stop" event, also when the relay had
\* gone on and off again between the two blocks.
C27_StopEventFollows ==
    [][(Sampled /\ WentOffSinceLastSample) => RunEvents("stop") # <<>>]_vars

\* a step of the network cycle (it leaves its section of the pass) that
\* fails before the fetched document is applied: the sign-in is refused;
\* the GET of ensureDeviceDoc or of firestoreFetchAndApply fails or answers
\* no document, or the body does not parse; the POST of ensureDeviceDoc, the
\* status PATCH, the telemetry POST or a POST of the drain fails
FailedEarly ==
    \/ /\ pc = "signin"
       /\ pc' # pc
       /\ \E e \in ExpiresIn, d \in HttpDelays : FirebaseSignIn(FALSE, e, d)
    \/ /\ pc = "ensure"
       /\ pc' # pc
       /\ \E e \in ExpiresIn, getOk, postOk \in BOOLEAN, ds, dg, dp \in HttpDelays :
             /\ ~(getOk /\ remote.exists)
             /\ EnsureDeviceDoc(TRUE, e, getOk, postOk, ds, dg, dp)
    \/ /\ pc = "status"
       /\ pc' # pc
       /\ \E e \in ExpiresIn, ds, dp \in HttpDelays :
             FirestoreUpdateStatus(TRUE, e, FALSE, ds, dp)
    \/ /\ pc = "fetch"
       /\ pc' # pc
       /\ \E e \in ExpiresIn, getOk, parseOk, patchOk \in BOOLEAN,
             ds, dg, dp \in HttpDelays, late \in RelayLateWrites(remote.control) :
             /\ ~(getOk /\ remote.exists /\ parseOk)
             /\ FirestoreFetchAndApply(TRUE, e, getOk, parseOk, patchOk, ds, dg, dp, late)
    \/ /\ pc = "telemetry"
       /\ pc' # pc
       /\ \E e \in ExpiresIn, ds, dp \in HttpDelays :
             FirestoreUploadTelemetry(TRUE, e, FALSE, ds, dp)
    \/ /\ pc = "drain"
       /\ pc' # pc
       /\ \E d \in HttpDelays : \E k \in 0..LogCap :
             pendingLen # None /\ k < Val(pendingLen) /\ DrainPending(k, d)

\* a step of firestoreFetchAndApply whose GET and parse succeed and whose
\* PATCH, which clears the intent it has found, fails
FailedClear ==
    /\ pc = "fetch"
    /\ pc' # pc
    /\ remote.exists
    /\ AnyIntent(remote.control)
    /\ \E e \in ExpiresIn, ds, dg, dp \in HttpDelays, late \in RelayLateWrites(remote.control) :
          FirestoreFetchAndApply(TRUE, e, TRUE, TRUE, FALSE, ds, dg, dp, late)

\* a step of the network cycle one of whose requests fails
FailedStep == FailedEarly \/ FailedClear

\* C28 (failed step): a step of the network cycle whose request fails
\* changes no threshold, no schedule field, not the horsepower, and none of
\* relayCommand, relayPhysical, manualPriority, lastOffMs, faultLockUntil.
C28_FailedStepChangesNothing ==
    [][FailedStep =>
          UNCHANGED <<thresholds, scheduleCfg, hp, relayCommand, relayPhysical,
                      manualPriority, lastOffMs, faultLockUntil>>]_vars

\* C28, as amended: a step that fails before the fetched document is applied
\* changes none of these (stated from the change: a step that changes one of
\* them is no such step); a fetch whose clearing PATCH fails has applied the
\* document before it sent the PATCH, and the failure changes nothing more:
\* the config is the fetched one, saved; the relay is as a single force asks
\* and the latch is cleared by clearManual or by a single force, as the
\* control part of the fetch does it; lastOffMs and faultLockUntil are
\* unchanged.
C28_FailedStepChangesNothingMore ==
    /\ [][~UNCHANGED <<thresholds, scheduleCfg, hp, relayCommand, relayPhysical,
                        manualPriority, lastOffMs, faultLockUntil>>
             => ~FailedEarly]_vars
    /\ [][FailedClear =>
             /\ UNCHANGED <<lastOffMs, faultLockUntil>>
             /\ LocalConfig' = [thresholds |-> FetchedThresholds(remote.cfg),
                                scheduleCfg |-> FetchedSchedule(remote.cfg),
                                hp |-> FetchedHp(remote.cfg)]
             /\ loadPrefs(prefs') = LocalConfig'
             /\ relayPhysical' = IF remote.control.forceOn = remote.control.forceOff
                                 THEN relayPhysical
                                 ELSE remote.control.forceOn
             /\ relayCommand' = IF remote.control.forceOn = remote.control.forceOff
                                THEN relayCommand
                                ELSE remote.control.forceOn
             /\ manualPriority' = IF \/ remote.control.clearManual
                                     \/ remote.control.forceOn # remote.control.forceOff
                                  THEN FALSE
                                  ELSE manualPriority]_vars

\* C28, its case: the fetch of this pass has found a forceOn, closed the
\* relay and failed to clear the intent, which the document still holds
C28_Witness ==
    /\ pc = "telemetry"
    /\ remote.control = [forceOn |-> TRUE, forceOff |-> FALSE, clearManual |-> FALSE]
    /\ applied = remote.control
    /\ relayPhysical
    /\ relayCommand

\* C29 (persistence): the Preferences namespace always loads back to the
\* thresholds, the schedule and the horsepower in memory, after every
\* setter call and every fetched document; and a restart, which loads it,
\* leaves the three as they were when the device went down: as the step
\* found them, or as its fetch had made and saved them before its PATCH
\* blocked.
C29_LoadRestoresConfig ==
    /\ [](loadPrefs(prefs) = LocalConfig)
    /\ [][Restarted =>
             \/ LocalConfig' = LocalConfig
             \/ /\ pc = "fetch"
                /\ LocalConfig' = [thresholds |-> FetchedThresholds(remote.cfg),
                                   scheduleCfg |-> FetchedSchedule(remote.cfg),
                                   hp |-> FetchedHp(remote.cfg)]]_vars

\* C29, its case: after setHP(2.0), a fetch has applied and saved a
\* maxCurrent_A of 7.5, its PATCH has blocked, and the device has restarted
\* with both values
C29_Witness ==
    /\ SetupMet(DownBoots)
    /\ setterCalls > 0
    /\ hp = 20
    /\ thresholds.maxCurrent_A = 75
    /\ prefs.hp = Some(20)
    /\ prefs.maxI = Some(75)

\* C30 (network absent): with no network the loop keeps running: the
\* reconnect attempt of a network cycle ends in the same pass of loop(),
\* which goes on to the log rotation, without a watchdog restart, and it
\* changes nothing of the relay state.
C30_OfflineLoopKeepsRunning ==
    [][ConnectWiFi(FALSE, WIFI_TIMEOUT_MS, OfflineBoots) =>
          /\ ~Restarted
          /\ pc' = "rotate"
          /\ UNCHANGED <<relayVars, timerVars>>]_vars

\* C31 (bounded log): an entry is appended to the active log only while the
\* log is under its size bound; a log that an append has taken to the bound
\* is rotated before the next entry, so that it never passes the bound by
\* more than the entry that reached it.
C31_AppendOnlyUnderBound ==
    [][logLen' > logLen => logLen < LogMaxEntries]_vars

\* C32 (store written on change only): a step of firestoreFetchAndApply
\* that changes no threshold, no schedule field and not the horsepower,
\* because the document's fields equal the local ones or because it has
\* none, does not write the Preferences namespace.
C32_NoWriteWithoutChange ==
    [][(FetchStep /\ UNCHANGED <<thresholds, scheduleCfg, hp>>) => ~saved']_vars

\* C33: a relay state set by a remote intent persists through the clean
\* samples that follow, whatever the schedule says.  Under SpecRemote nobody
\* is at the buttons and the relay is otherwise moved in the sampling block
\* only, which leaves wasRunning equal to the relay: a sampling block that
\* finds the two different follows a forceOn or forceOff applied since the
\* previous one, and when its sample is clean it leaves the relay as the
\* intent set it.
C33_IntentStateKept ==
    [][(Sampled /\ SampledFault = "FAULT_NONE" /\ relayPhysical # wasRunning)
          => relayPhysical' = relayPhysical]_vars

\* C34: the idle reading of a stopped pump does not keep the schedule from
\* starting it: a sample taken while the relay is open, the latch is clear,
\* the window is open (the schedule commands on), the voltage is within
\* [minVoltage, maxVoltage] and both gates have elapsed closes the relay.
C34_IdleReadingStarts ==
    [][(/\ Sampled
        /\ ~relayPhysical /\ ~manualPriority /\ relayCommand'
        /\ meas'.V >= thresholds.minVoltage /\ meas'.V <= thresholds.maxVoltage
        /\ ScheduleGate(nowMs))
          => relayPhysical']_vars

\* C35: the gates hold across the wrap of the millisecond counter: the relay
\* is closed only when MIN_OFF_MS have passed since it opened and, after a
\* fault trip, only when the counter has come to faultLockUntil, 30000 ms
\* after the trip (in SpecWrap the signed order is the order of time, and
\* faultLockUntil is 0 until the first trip).
C35_GatesAcrossWrap ==
    [][(~relayPhysical /\ relayPhysical')
          => /\ sinceOff' >= MIN_OFF_MS
             /\ faultLockUntil # 0 => now >= faultLockUntil]_vars

\* C36: no remote intent is lost: an intent the user has written and the
\* device has not yet applied (fresh) is still in the control map, where a
\* later reconciliation cycle finds it, also when it was written between the
\* GET and the PATCH of a fetch.
C36_NoIntentLost == fresh => AnyIntent(remote.control)

\* C37: after a reconciliation cycle in which every request succeeded (every
\* cycle of SpecRemote; the pass is at "drain" when the status update, the
\* fetch and the telemetry upload are done), the relay field of the status
\* map equals the physical relay state.
C37_StatusRelayCurrent ==
    pc = "drain" => (remote.status # None /\ Val(remote.status).relay = relayPhysical)

\* C38: lastOffMs is the time of the latest physical on->off transition (the
\* boot time when there has been none): a step that moves lastOffMs opens a
\* closed relay or restarts the device, and a step that opens a closed relay
\* stamps lastOffMs with the counter value of the pass.
C38_LastOffIsLatestOff ==
    [][/\ lastOffMs' # lastOffMs => ((relayPhysical /\ ~relayPhysical') \/ Restarted)
       /\ (relayPhysical /\ ~relayPhysical' /\ ~Restarted) => lastOffMs' = now]_vars

\* C39: in the simple firmware a pump turned off by a protection trip or by
\* the stop button stays off across the command polls while pump_on has not
\* been changed since: a command poll that finds the pump in that condition
\* leaves it off.
C39_LocalOffSurvivesPoll ==
    [][(simple.at = "commands" /\ simple.localOff) => ~simple'.pumpStatus]_vars
====
